---- MODULE Spec2Model ----
(***************************************************************************)
(* The partition command interpreter of the worker: CommandInterpreter     *)
(* (command_interpreter/mod.rs) applied to commands, with the effects it   *)
(* emits committed to the partition storage the StateReader reads from.    *)
(***************************************************************************)
EXTENDS Integers, Sequences, FiniteSets, TLC

(* ------------------------------ bounds --------------------------------- *)
\* journal indexes are 0 .. MaxJournalLen-1
MaxJournalLen == 3
\* the journal indexes of the commands of Spec are 0 .. LifeJournalLen-1
LifeJournalLen == 2
\* the counters passed to new()
InitInboxSeq == 1
InitOutboxSeq == 2
\* the sequence counters stop growing at these values (the commands that
\* would pass them are not applied)
MaxInboxSeq == 3
MaxOutboxSeq == 4
\* wall-clock readings are 1 .. MaxClock
MaxClock == 2
\* iterations of the loop of PartitionProcessor::run in SpecRun
MaxTurns == 3

(* ------------------------------ inputs --------------------------------- *)
\* the service invocations (uuids) a behaviour may start
Invocations == {1, 2, 3}
\* the fid of an invocation of a deterministic built-in service
BuiltInInv == 0
Objects == {"a"}
\* service id (virtual object) of an invocation's fid
ObjOf(i) == "a"
\* response sink carried by the ServiceInvocation of invocation i
SinkOf(i) == IF i % 3 = 1 THEN "Ingress"
             ELSE IF i % 3 = 2 THEN "PartitionProcessor" ELSE "None"
\* uuid the entry enricher gave the child invoked by entry idx of invocation i
ChildOf(i, idx) == 10 * i + idx
Indexes == 0 .. (MaxJournalLen - 1)
Clock == 1 .. MaxClock
\* the one wake-up / execution time used by Sleep entries and scheduled invokes
SomeTime == 7

KILLED_INVOCATION_ERROR == "killed"
CANCELED_INVOCATION_ERROR == "canceled"

(* --------------------------- journal entries --------------------------- *)
\* entry types whose header carries an is_completed flag
CompletableTypes == {"GetState", "GetStateKeys", "Sleep", "Invoke", "Awakeable"}
PlainTypes == {"Input", "Output", "SetState", "ClearState", "ClearAllState",
               "BackgroundInvoke", "CompleteAwakeable", "Custom"}

\* JournalEntry::Entry(EnrichedRawEntry): header type, its is_completed flag,
\* its enrichment result (0 = None, else the child's uuid), the completion
\* result written into the raw entry ("" = none) and the entry's time field
\* (wake_up_time of Sleep, invoke_time of BackgroundInvoke)
Entry(type, completed, enr, result, t) ==
    [kind |-> "Entry", type |-> type, completed |-> completed, enr |-> enr,
     result |-> result, t |-> t]
\* JournalEntry::Completion(result): a completion stored before its entry
CompletionEntry(result) ==
    [kind |-> "Completion", type |-> "", completed |-> TRUE, enr |-> 0,
     result |-> result, t |-> 0]
NoEntry ==
    [kind |-> "None", type |-> "", completed |-> FALSE, enr |-> 0,
     result |-> "", t |-> 0]
\* an item of the journal stream that is Err(StorageError)
ReadError ==
    [kind |-> "Error", type |-> "", completed |-> FALSE, enr |-> 0,
     result |-> "", t |-> 0]

\* EnrichedEntryHeader::is_completed(): Some(flag) or None
header_is_completed(e) ==
    IF e.type \in CompletableTypes
    THEN IF e.completed THEN "Some(true)" ELSE "Some(false)"
    ELSE "None"

\* Codec::write_completion(&mut entry, result)
write_completion(e, result) == [e EXCEPT !.completed = TRUE, !.result = result]

\* the entries the invoker may report at index idx of invocation i
EntryMenu(i, idx) ==
    {Entry(ty, c, 0, "", 0) : ty \in {"GetState", "GetStateKeys", "Awakeable"},
                              c \in BOOLEAN}
    \cup {Entry("Sleep", c, 0, "", SomeTime) : c \in BOOLEAN}
    \cup {Entry("Invoke", c, enr, "", 0) : c \in BOOLEAN,
                                           enr \in {0, ChildOf(i, idx)}}
    \cup {Entry("BackgroundInvoke", FALSE, ChildOf(i, idx), "", t) :
                                           t \in {0, SomeTime}}
    \cup {Entry(ty, FALSE, 0, "", 0) :
             ty \in PlainTypes \ {"BackgroundInvoke"}}

(* ------------------------------- state --------------------------------- *)
VARIABLES
    inbox_seq_number,   \* CommandInterpreter.inbox_seq_number
    outbox_seq_number,  \* CommandInterpreter.outbox_seq_number
    debug_assertions,   \* whether the build checks debug_assert!
    status,             \* invocation status table
    vobj,               \* virtual object status table: 0 = Unlocked, i = Locked(i)
    journal,            \* journal table
    inbox,              \* inbox table, per object
    kv,                 \* user state of each object (one key)
    timers,             \* timer table
    outbox,             \* outbox table (sequence numbers)
    started,            \* invocations an Invoke command was applied for
    hist,               \* sequence numbers emitted so far, and the initial counters
    run                 \* PartitionProcessor::run: where its loop stands

vars == <<inbox_seq_number, outbox_seq_number, debug_assertions, status, vobj,
          journal, inbox, kv, timers, outbox, started, hist, run>>

Free == [tag |-> "Free", len |-> 0, wf |-> {}]
Invoked(len) == [tag |-> "Invoked", len |-> len, wf |-> {}]
Suspended(len, wf) == [tag |-> "Suspended", len |-> len, wf |-> wf]

\* the storage the StateReader reads and the effects are committed to; fail
\* holds the reads that return Err(StorageError): none
Storage ==
    [status |-> status, vobj |-> vobj, journal |-> journal, inbox |-> inbox,
     kv |-> kv, timers |-> timers, outbox |-> outbox, fail |-> {}]

\* a read of the StateReader: the method, the invocation and the entry index
\* it is about (0 where it has none)
Read(op, i, idx) == [op |-> op, inv |-> i, idx |-> idx]
\* the read returns Err(StorageError)
Fails(st, op, i, idx) == Read(op, i, idx) \in st.fail

(* ----------------------------- StateReader ----------------------------- *)
get_virtual_object_status(st, obj) == st.vobj[obj]
get_invocation_status(st, i) == st.status[i]

\* positions of invocation i in the inbox of its object
InboxPositions(st, i) ==
    {p \in 1 .. Len(st.inbox[ObjOf(i)]) :
        /\ st.inbox[ObjOf(i)][p].kind = "Invocation"
        /\ st.inbox[ObjOf(i)][p].inv = i}
\* Option<SequenceNumberInvocation>: the inbox sequence number, or -1 for None
get_inboxed_invocation(st, i) ==
    IF InboxPositions(st, i) = {} THEN -1
    ELSE st.inbox[ObjOf(i)][CHOOSE p \in InboxPositions(st, i) :
                               \A q \in InboxPositions(st, i) : p <= q].seq

is_entry_resumable(st, i, idx) ==
    LET e == st.journal[i][idx] IN
    CASE e.kind = "Completion" -> TRUE
      [] e.kind = "Entry" -> header_is_completed(e) # "Some(false)"
      [] OTHER -> FALSE

\* variant: the state of the object is not found
load_state_none(st, obj) == ""

\* Option<Bytes>: "" is None
load_state(st, obj) == st.kv[obj]

\* variant: a completion stored before its entry is not found
load_completion_result_none(st, i, idx) == ""

\* Option<CompletionResult>: "" is None
load_completion_result(st, i, idx) ==
    IF st.journal[i][idx].kind = "Completion" THEN st.journal[i][idx].result ELSE ""

\* the stored entries with index below length, ascending; an entry whose
\* read fails is an Err item of the stream
RECURSIVE get_journal(_, _, _)
get_journal(st, i, length) ==
    IF length = 0 THEN <<>>
    ELSE LET rest == get_journal(st, i, length - 1)
             idx == length - 1 IN
         IF idx \in Indexes /\ st.journal[i][idx].kind # "None"
         THEN Append(rest, <<idx, IF Fails(st, "get_journal", i, idx)
                                  THEN ReadError ELSE st.journal[i][idx]>>)
         ELSE rest

(* ------------------------- CommandInterpreter -------------------------- *)
\* what on_apply has produced so far: the Effects buffer, the interpreter's
\* two counters and whether the call returned Ok ("ok"), returned Err
\* ("error") or panicked ("panic")
Ctx(inb, outb) == [eff |-> <<>>, inb |-> inb, outb |-> outb, res |-> "ok"]
Emit(ctx, e) == [ctx EXCEPT !.eff = Append(@, e)]
Panic(ctx) == [ctx EXCEPT !.res = "panic"]
\* the ? operator on a failed read
Err(ctx) == [ctx EXCEPT !.res = "error"]

\* variant: the counter is not advanced
handle_outgoing_message_stale(ctx, message) ==
    [ctx EXCEPT !.eff = Append(@, [type |-> "enqueue_into_outbox",
                                   seq |-> ctx.outb, msg |-> message])]

handle_outgoing_message(ctx, message) ==
    [ctx EXCEPT !.eff = Append(@, [type |-> "enqueue_into_outbox",
                                   seq |-> ctx.outb, msg |-> message]),
                !.outb = @ + 1]

ingress_response(ctx, i, result) ==
    Emit(ctx, [type |-> "send_ingress_response", inv |-> i, result |-> result])

\* variant: a partition-processor sink is answered on both paths
send_response_both(ctx, i, sink, result) ==
    IF sink = "PartitionProcessor"
    THEN ingress_response(handle_outgoing_message(ctx,
                              [type |-> "ServiceResponse", inv |-> i,
                               result |-> result]), i, result)
    ELSE ingress_response(ctx, i, result)

\* create_response_message followed by send_response
send_response(ctx, i, sink, result) ==
    IF sink = "PartitionProcessor"
    THEN handle_outgoing_message(ctx, [type |-> "ServiceResponse", inv |-> i,
                                       result |-> result])
    ELSE ingress_response(ctx, i, result)

try_send_failure_response(ctx, i, sink, error) ==
    IF sink # "None" THEN send_response(ctx, i, sink, error) ELSE ctx

notify_invocation_result(ctx, i, time, result) ==
    Emit(ctx, [type |-> "trace_invocation_result", inv |-> i, time |-> time,
               result |-> result])

\* variant: the counter is not advanced
enqueue_into_inbox_stale(ctx, inbox_entry) ==
    [ctx EXCEPT !.eff = Append(@, [type |-> "enqueue_into_inbox",
                                   seq |-> ctx.inb, entry |-> inbox_entry])]

enqueue_into_inbox(ctx, inbox_entry) ==
    [ctx EXCEPT !.eff = Append(@, [type |-> "enqueue_into_inbox",
                                   seq |-> ctx.inb, entry |-> inbox_entry]),
                !.inb = @ + 1]

\* variant: the journal is kept and the inbox is not popped
end_invocation_lifecycle_kept(ctx, i, journal_length) == ctx

end_invocation_lifecycle(ctx, i, journal_length) ==
    Emit(ctx, [type |-> "drop_journal_and_pop_inbox", inv |-> i,
               len |-> journal_length])

\* creation_time() of the metadata is a stored value: 0 in this model
end_invocation(ctx, i, meta) ==
    end_invocation_lifecycle(notify_invocation_result(ctx, i, 0, "ok"), i, meta.len)

fail_invocation(ctx, i, meta, error) ==
    end_invocation_lifecycle(
        notify_invocation_result(
            try_send_failure_response(ctx, i, SinkOf(i), error), i, 0, error),
        i, meta.len)

RECURSIVE handle_deterministic_built_in_service_invocation(_, _, _)
handle_deterministic_built_in_service_invocation(ctx, si, k) ==
    IF k > Len(si.out) THEN ctx
    ELSE handle_deterministic_built_in_service_invocation(
            IF si.out[k] = "OutboxMessage"
            THEN handle_outgoing_message(ctx, [type |-> "BuiltIn", inv |-> si.inv])
            ELSE ingress_response(ctx, si.inv, "ok"),
            si, k + 1)

\* variant: no service is a deterministic built-in service
is_supported_never(si) == FALSE

\* deterministic::ServiceInvoker::is_supported(service_name)
is_supported(si) == si.inv = BuiltInInv

\* variant: an invocation is queued whatever the status of the object
handle_invoke_queued(ctx, st, si) ==
    IF si.execution_time # 0
    THEN Emit(ctx, [type |-> "register_timer",
                    timer |-> [kind |-> "Invoke", inv |-> si.inv, idx |-> 0,
                               time |-> si.execution_time, si |-> si]])
    ELSE IF is_supported(si)
         THEN handle_deterministic_built_in_service_invocation(ctx, si, 1)
         ELSE enqueue_into_inbox(ctx, [kind |-> "Invocation", inv |-> si.inv,
                                       obj |-> ObjOf(si.inv)])

\* variant: the status of the object is not consulted
handle_invoke_unlocked(ctx, st, si) ==
    IF si.execution_time # 0
    THEN Emit(ctx, [type |-> "register_timer",
                    timer |-> [kind |-> "Invoke", inv |-> si.inv, idx |-> 0,
                               time |-> si.execution_time, si |-> si]])
    ELSE IF is_supported(si)
         THEN handle_deterministic_built_in_service_invocation(ctx, si, 1)
         ELSE Emit(ctx, [type |-> "invoke_service", inv |-> si.inv])

\* variant: the object status is read before execution_time is looked at
handle_invoke_status_first(ctx, st, si) ==
    IF Fails(st, "get_virtual_object_status", 0, 0) THEN Err(ctx)
    ELSE IF si.execution_time # 0
    THEN Emit(ctx, [type |-> "register_timer",
                    timer |-> [kind |-> "Invoke", inv |-> si.inv, idx |-> 0,
                               time |-> si.execution_time, si |-> si]])
    ELSE IF is_supported(si)
         THEN handle_deterministic_built_in_service_invocation(ctx, si, 1)
         ELSE IF get_virtual_object_status(st, ObjOf(si.inv)) = 0
              THEN Emit(ctx, [type |-> "invoke_service", inv |-> si.inv])
              ELSE enqueue_into_inbox(ctx, [kind |-> "Invocation", inv |-> si.inv,
                                            obj |-> ObjOf(si.inv)])

handle_invoke(ctx, st, si) ==
    IF si.execution_time # 0
    THEN Emit(ctx, [type |-> "register_timer",
                    timer |-> [kind |-> "Invoke", inv |-> si.inv, idx |-> 0,
                               time |-> si.execution_time, si |-> si]])
    ELSE IF Fails(st, "get_virtual_object_status", 0, 0) THEN Err(ctx)
    ELSE IF is_supported(si)
         THEN handle_deterministic_built_in_service_invocation(ctx, si, 1)
         ELSE IF get_virtual_object_status(st, ObjOf(si.inv)) = 0
              THEN Emit(ctx, [type |-> "invoke_service", inv |-> si.inv])
              ELSE enqueue_into_inbox(ctx, [kind |-> "Invocation", inv |-> si.inv,
                                            obj |-> ObjOf(si.inv)])

\* what handle_invoke returns, (Option<FullInvocationId>, SpanRelation):
\* fid -1 is None
handle_invoke_returns(st, si) ==
    IF si.execution_time # 0 THEN [fid |-> -1, span |-> "None"]
    ELSE IF Fails(st, "get_virtual_object_status", 0, 0)
         THEN [fid |-> -1, span |-> "Err"]
         ELSE [fid |-> si.inv, span |-> "parent"]

\* variant: the mutation is applied whatever the status of the object
handle_external_state_mutation_eager(ctx, st, mutation) ==
    Emit(ctx, [type |-> "apply_state_mutation", obj |-> mutation.obj])

handle_external_state_mutation(ctx, st, mutation) ==
    IF Fails(st, "get_virtual_object_status", 0, 0) THEN Err(ctx)
    ELSE IF get_virtual_object_status(st, mutation.obj) # 0
    THEN enqueue_into_inbox(ctx, [kind |-> "StateMutation", inv |-> 0,
                                  obj |-> mutation.obj])
    ELSE Emit(ctx, [type |-> "apply_state_mutation", obj |-> mutation.obj])

(* ---------------------------- termination ------------------------------ *)
\* variant: is_completed of an Invoke entry is not consulted
RECURSIVE kill_child_invocations_all(_, _, _)
kill_child_invocations_all(ctx, jr, k) ==
    IF k > Len(jr) \/ ctx.res # "ok" THEN ctx
    ELSE LET h == jr[k][2] IN
         kill_child_invocations_all(
            IF h.kind = "Error" THEN Err(ctx)
            ELSE IF h.kind = "Entry" /\ h.type = "Invoke" /\ h.enr # 0
            THEN handle_outgoing_message(ctx, [type |-> "InvocationTermination",
                                               flavor |-> "Kill", inv |-> h.enr])
            ELSE ctx,
            jr, k + 1)

\* the walk of kill_child_invocations over the journal stream jr, from its
\* k-th item on
RECURSIVE kill_child_invocations(_, _, _)
kill_child_invocations(ctx, jr, k) ==
    IF k > Len(jr) \/ ctx.res # "ok" THEN ctx
    ELSE LET h == jr[k][2] IN
         kill_child_invocations(
            IF h.kind = "Error" THEN Err(ctx)
            ELSE IF h.kind = "Entry" /\ h.type = "Invoke" /\ h.enr # 0 /\ ~h.completed
            THEN handle_outgoing_message(ctx, [type |-> "InvocationTermination",
                                               flavor |-> "Kill", inv |-> h.enr])
            ELSE ctx,
            jr, k + 1)

\* variant: the invoker is told to abort before the failure is recorded
kill_invocation_abort_first(ctx, st, i, meta) ==
    LET killed == kill_child_invocations(ctx, get_journal(st, i, meta.len), 1) IN
    IF killed.res # "ok" THEN killed
    ELSE fail_invocation(Emit(killed, [type |-> "abort_invocation", inv |-> i]),
                         i, meta, KILLED_INVOCATION_ERROR)

kill_invocation(ctx, st, i, meta) ==
    LET killed == kill_child_invocations(ctx, get_journal(st, i, meta.len), 1) IN
    IF killed.res # "ok" THEN killed
    ELSE Emit(fail_invocation(killed, i, meta, KILLED_INVOCATION_ERROR),
              [type |-> "abort_invocation", inv |-> i])

handle_completion_for_invoked(ctx, i, idx, result) ==
    Emit(Emit(ctx, [type |-> "store_completion", inv |-> i, idx |-> idx,
                    result |-> result]),
         [type |-> "forward_completion", inv |-> i, idx |-> idx, result |-> result])

\* the effect; the returned flag is waiting_for.contains(idx)
handle_completion_for_suspended(ctx, i, idx, result) ==
    Emit(ctx, [type |-> "store_completion", inv |-> i, idx |-> idx, result |-> result])

\* variant: the canceled completion is forwarded whatever the status
cancel_journal_entry_with_forwarding(ctx, i, invocation_status, journal_index, canceled_result) ==
    handle_completion_for_invoked(ctx, i, journal_index, canceled_result)

\* invocation_status is the InvocationStatusProjection: the status read
cancel_journal_entry_with(ctx, i, invocation_status, journal_index, canceled_result) ==
    IF invocation_status.tag = "Invoked"
    THEN handle_completion_for_invoked(ctx, i, journal_index, canceled_result)
    ELSE handle_completion_for_suspended(ctx, i, journal_index, canceled_result)

\* variant: the timer key of a canceled Sleep carries no wake-up time
RECURSIVE cancel_journal_leaves_untimed(_, _, _, _, _)
cancel_journal_leaves_untimed(w, i, invocation_status, jr, k) ==
    IF k > Len(jr) \/ w.ctx.res # "ok" THEN w
    ELSE LET journal_index == jr[k][1]
             h == jr[k][2]
             canceled == cancel_journal_entry_with(w.ctx, i, invocation_status,
                                                   journal_index, CANCELED_INVOCATION_ERROR)
             flag == w.resume \/ (invocation_status.tag = "Suspended"
                                  /\ journal_index \in invocation_status.wf)
             next ==
               CASE h.kind = "Error" -> [w EXCEPT !.ctx = Err(w.ctx)]
                 [] h.kind \notin {"Entry", "Error"} -> w
                 [] h.kind = "Entry" /\ h.type = "Invoke" /\ h.enr # 0 /\ ~h.completed ->
                      [w EXCEPT !.ctx = handle_outgoing_message(w.ctx,
                          [type |-> "InvocationTermination", flavor |-> "Cancel",
                           inv |-> h.enr])]
                 [] h.kind = "Entry" /\ h.type \in {"Awakeable", "GetState"}
                        /\ ~h.completed ->
                      [ctx |-> canceled, resume |-> flag]
                 [] h.kind = "Entry" /\ h.type = "Sleep" /\ ~h.completed ->
                      [ctx |-> Emit(canceled, [type |-> "delete_timer",
                                      key |-> [inv |-> i, idx |-> journal_index,
                                               time |-> 0]]),
                       resume |-> flag]
                 [] OTHER ->
                      IF header_is_completed(h) = "Some(false)"
                      THEN [w EXCEPT !.ctx = Panic(w.ctx)]
                      ELSE w
         IN cancel_journal_leaves_untimed(next, i, invocation_status, jr, k + 1)

\* the walk of cancel_journal_leaves; w.ctx is the context and w.resume the
\* local resume_invocation
RECURSIVE cancel_journal_leaves(_, _, _, _, _)
cancel_journal_leaves(w, i, invocation_status, jr, k) ==
    IF k > Len(jr) \/ w.ctx.res # "ok" THEN w
    ELSE LET journal_index == jr[k][1]
             h == jr[k][2]
             canceled == cancel_journal_entry_with(w.ctx, i, invocation_status,
                                                   journal_index, CANCELED_INVOCATION_ERROR)
             flag == w.resume \/ (invocation_status.tag = "Suspended"
                                  /\ journal_index \in invocation_status.wf)
             next ==
               CASE h.kind = "Error" -> [w EXCEPT !.ctx = Err(w.ctx)]
                 [] h.kind \notin {"Entry", "Error"} -> w
                 [] h.kind = "Entry" /\ h.type = "Invoke" /\ h.enr # 0 /\ ~h.completed ->
                      [w EXCEPT !.ctx = handle_outgoing_message(w.ctx,
                          [type |-> "InvocationTermination", flavor |-> "Cancel",
                           inv |-> h.enr])]
                 [] h.kind = "Entry" /\ h.type \in {"Awakeable", "GetState"}
                        /\ ~h.completed ->
                      [ctx |-> canceled, resume |-> flag]
                 [] h.kind = "Entry" /\ h.type = "Sleep" /\ ~h.completed ->
                      [ctx |-> Emit(canceled, [type |-> "delete_timer",
                                      key |-> [inv |-> i, idx |-> journal_index,
                                               time |-> h.t]]),
                       resume |-> flag]
                 [] OTHER ->
                      IF header_is_completed(h) = "Some(false)"
                      THEN [w EXCEPT !.ctx = Panic(w.ctx)]
                      ELSE w
         IN cancel_journal_leaves(next, i, invocation_status, jr, k + 1)

terminate_inboxed_invocation(ctx, i, inbox_sequence_number, error, now) ==
    Emit(notify_invocation_result(
            try_send_failure_response(ctx, i, SinkOf(i), error), i, now, error),
         [type |-> "delete_inbox_entry", obj |-> ObjOf(i),
          seq |-> inbox_sequence_number])

\* variant: the invoker is told to abort an unknown invocation whatever the id
try_terminate_inboxed_invocation_any_id(ctx, st, flavor, i, full, now) ==
    LET error == IF flavor = "Kill" THEN KILLED_INVOCATION_ERROR
                 ELSE CANCELED_INVOCATION_ERROR
        inbox_entry == get_inboxed_invocation(st, i) IN
    IF Fails(st, "get_inboxed_invocation", i, 0) THEN Err(ctx)
    ELSE IF inbox_entry # -1
    THEN terminate_inboxed_invocation(ctx, i, inbox_entry, error, now)
    ELSE Emit(ctx, [type |-> "abort_invocation", inv |-> i])

\* variant: the invoker is told to abort whenever the id is a full one
try_terminate_inboxed_invocation_aborting(ctx, st, flavor, i, full, now) ==
    LET error == IF flavor = "Kill" THEN KILLED_INVOCATION_ERROR
                 ELSE CANCELED_INVOCATION_ERROR
        inbox_entry == get_inboxed_invocation(st, i)
        done == IF inbox_entry # -1
                THEN terminate_inboxed_invocation(ctx, i, inbox_entry, error, now)
                ELSE ctx IN
    IF Fails(st, "get_inboxed_invocation", i, 0) THEN Err(ctx)
    ELSE IF full THEN Emit(done, [type |-> "abort_invocation", inv |-> i])
         ELSE done

try_terminate_inboxed_invocation(ctx, st, flavor, i, full, now) ==
    LET error == IF flavor = "Kill" THEN KILLED_INVOCATION_ERROR
                 ELSE CANCELED_INVOCATION_ERROR
        inbox_entry == get_inboxed_invocation(st, i) IN
    IF Fails(st, "get_inboxed_invocation", i, 0) THEN Err(ctx)
    ELSE IF inbox_entry # -1
    THEN terminate_inboxed_invocation(ctx, i, inbox_entry, error, now)
    ELSE IF full THEN Emit(ctx, [type |-> "abort_invocation", inv |-> i])
         ELSE ctx

try_kill_invocation(ctx, st, i, full, now) ==
    LET s == get_invocation_status(st, i) IN
    IF Fails(st, "get_invocation_status", i, 0) THEN Err(ctx)
    ELSE IF s.tag \in {"Invoked", "Suspended"}
    THEN kill_invocation(ctx, st, i, s)
    ELSE try_terminate_inboxed_invocation(ctx, st, "Kill", i, full, now)

\* variant: a suspended invocation is resumed whatever the walk canceled
try_cancel_invocation_resuming(ctx, st, i, full, now) ==
    LET s == get_invocation_status(st, i)
        w == cancel_journal_leaves([ctx |-> ctx, resume |-> FALSE], i, s,
                                   get_journal(st, i, s.len), 1) IN
    IF Fails(st, "get_invocation_status", i, 0) THEN Err(ctx) ELSE
    CASE s.tag = "Invoked" -> w.ctx
      [] s.tag = "Suspended" ->
           IF w.ctx.res = "ok"
           THEN Emit(w.ctx, [type |-> "resume_service", inv |-> i, len |-> s.len])
           ELSE w.ctx
      [] OTHER -> try_terminate_inboxed_invocation(ctx, st, "Cancel", i, full, now)

try_cancel_invocation(ctx, st, i, full, now) ==
    LET s == get_invocation_status(st, i)
        w == cancel_journal_leaves([ctx |-> ctx, resume |-> FALSE], i, s,
                                   get_journal(st, i, s.len), 1) IN
    IF Fails(st, "get_invocation_status", i, 0) THEN Err(ctx) ELSE
    CASE s.tag = "Invoked" -> w.ctx
      [] s.tag = "Suspended" ->
           IF w.resume /\ w.ctx.res = "ok"
           THEN Emit(w.ctx, [type |-> "resume_service", inv |-> i, len |-> s.len])
           ELSE w.ctx
      [] OTHER -> try_terminate_inboxed_invocation(ctx, st, "Cancel", i, full, now)

try_terminate_invocation(ctx, st, c, now) ==
    IF c.flavor = "Kill" THEN try_kill_invocation(ctx, st, c.inv, c.full, now)
    ELSE try_cancel_invocation(ctx, st, c.inv, c.full, now)

(* --------------------------- invoker effects --------------------------- *)
\* the effects of the match on journal_entry.header(), and the entry as it is
\* appended: r.ctx and r.entry
classify_journal_entry(ctx, st, i, entry_index, e, dbg) ==
    LET keep == [ctx |-> ctx, entry |-> e] IN
    CASE e.type = "Output" ->
           [keep EXCEPT !.ctx =
               IF SinkOf(i) # "None" THEN send_response(ctx, i, SinkOf(i), "output")
               ELSE ctx]
      [] e.type = "GetState" ->
           IF ~e.completed /\ Fails(st, "load_state", i, 0)
           THEN [keep EXCEPT !.ctx = Err(ctx)]
           ELSE IF ~e.completed
           THEN LET value == load_state(st, ObjOf(i))
                    completion_result == IF value # "" THEN "Success" ELSE "Empty" IN
                [ctx |-> Emit(ctx, [type |-> "forward_completion", inv |-> i,
                                    idx |-> entry_index, result |-> completion_result]),
                 entry |-> write_completion(e, completion_result)]
           ELSE keep
      [] e.type = "SetState" ->
           [keep EXCEPT !.ctx = Emit(ctx, [type |-> "set_state", obj |-> ObjOf(i),
                                           inv |-> i])]
      [] e.type = "ClearState" ->
           [keep EXCEPT !.ctx = Emit(ctx, [type |-> "clear_state", obj |-> ObjOf(i),
                                           inv |-> i])]
      [] e.type = "ClearAllState" ->
           [keep EXCEPT !.ctx = Emit(ctx, [type |-> "clear_all_state",
                                           obj |-> ObjOf(i), inv |-> i])]
      [] e.type = "GetStateKeys" ->
           IF ~e.completed /\ Fails(st, "load_state_keys", i, 0)
           THEN [keep EXCEPT !.ctx = Err(ctx)]
           ELSE IF ~e.completed
           THEN LET completion_result ==
                        IF load_state(st, ObjOf(i)) # "" THEN "Keys(k)" ELSE "Keys()" IN
                [ctx |-> Emit(ctx, [type |-> "forward_completion", inv |-> i,
                                    idx |-> entry_index, result |-> completion_result]),
                 entry |-> write_completion(e, completion_result)]
           ELSE keep
      [] e.type = "Sleep" ->
           IF dbg /\ e.completed THEN [keep EXCEPT !.ctx = Panic(ctx)]
           ELSE [keep EXCEPT !.ctx =
                    Emit(ctx, [type |-> "register_timer",
                               timer |-> [kind |-> "CompleteSleepEntry", inv |-> i,
                                          idx |-> entry_index, time |-> e.t,
                                          si |-> [inv |-> 0, execution_time |-> 0,
                                                  out |-> <<>>]]])]
      [] e.type = "Invoke" ->
           IF e.enr # 0
           THEN [keep EXCEPT !.ctx = handle_outgoing_message(ctx,
                    [type |-> "ServiceInvocation", inv |-> e.enr,
                     sink |-> "PartitionProcessor", caller |-> i,
                     idx |-> entry_index, execution_time |-> 0])]
           ELSE keep
      [] e.type = "BackgroundInvoke" ->
           [keep EXCEPT !.ctx = handle_outgoing_message(
                Emit(ctx, [type |-> "trace_background_invoke", inv |-> e.enr]),
                [type |-> "ServiceInvocation", inv |-> e.enr, sink |-> "None",
                 caller |-> 0, idx |-> 0, execution_time |-> e.t])]
      [] e.type = "Awakeable" ->
           IF dbg /\ e.completed THEN [keep EXCEPT !.ctx = Panic(ctx)]
           ELSE IF Fails(st, "load_completion_result", i, entry_index)
           THEN [keep EXCEPT !.ctx = Err(ctx)]
           ELSE LET completion_result == load_completion_result(st, i, entry_index) IN
                IF completion_result # ""
                THEN [ctx |-> Emit(ctx, [type |-> "forward_completion", inv |-> i,
                                         idx |-> entry_index,
                                         result |-> completion_result]),
                      entry |-> write_completion(e, completion_result)]
                ELSE keep
      [] e.type = "CompleteAwakeable" ->
           [keep EXCEPT !.ctx = handle_outgoing_message(ctx,
                [type |-> "AwakeableCompletion", inv |-> i, idx |-> entry_index])]
      [] OTHER -> keep

\* variant: the invoker is acked only for entries that emitted nothing else
handle_journal_entry_unacked(ctx, st, i, entry_index, e, meta, dbg) ==
    IF dbg /\ entry_index # meta.len THEN Panic(ctx)
    ELSE LET r == classify_journal_entry(ctx, st, i, entry_index, e, dbg)
             appended == Emit(r.ctx, [type |-> "append_journal_entry", inv |-> i,
                                      len |-> meta.len, idx |-> entry_index,
                                      entry |-> r.entry]) IN
         IF r.ctx.res # "ok" THEN r.ctx
         ELSE IF r.ctx.eff # ctx.eff THEN appended
         ELSE Emit(appended, [type |-> "send_stored_ack_to_invoker", inv |-> i,
                              idx |-> entry_index])

handle_journal_entry(ctx, st, i, entry_index, e, meta, dbg) ==
    IF dbg /\ entry_index # meta.len THEN Panic(ctx)
    ELSE LET r == classify_journal_entry(ctx, st, i, entry_index, e, dbg) IN
         IF r.ctx.res # "ok" THEN r.ctx
         ELSE Emit(Emit(r.ctx, [type |-> "append_journal_entry", inv |-> i,
                                len |-> meta.len, idx |-> entry_index,
                                entry |-> r.entry]),
                   [type |-> "send_stored_ack_to_invoker", inv |-> i,
                    idx |-> entry_index])

\* variant: Suspended resumes only when every awaited entry is resumable
on_invoker_effect_all(ctx, st, c, meta, dbg) ==
    CASE c.kind = "SelectedDeployment" ->
           Emit(ctx, [type |-> "store_chosen_deployment", inv |-> c.inv,
                      len |-> meta.len])
      [] c.kind = "JournalEntry" ->
           handle_journal_entry(ctx, st, c.inv, c.idx, c.entry, meta, dbg)
      [] c.kind = "Suspended" ->
           IF dbg /\ c.wf = {} THEN Panic(ctx)
           ELSE IF \E entry_index \in c.wf :
                       Fails(st, "is_entry_resumable", c.inv, entry_index)
                THEN Err(ctx)
           ELSE IF \A entry_index \in c.wf : is_entry_resumable(st, c.inv, entry_index)
                THEN Emit(ctx, [type |-> "resume_service", inv |-> c.inv,
                                len |-> meta.len])
                ELSE Emit(ctx, [type |-> "suspend_service", inv |-> c.inv,
                                len |-> meta.len, wf |-> c.wf])
      [] c.kind = "End" -> end_invocation(ctx, c.inv, meta)
      [] OTHER -> fail_invocation(ctx, c.inv, meta, c.error)

\* the awaited entries are a HashSet, read in no fixed order until one is
\* resumable: a failing read among them is taken to come first
on_invoker_effect(ctx, st, c, meta, dbg) ==
    CASE c.kind = "SelectedDeployment" ->
           Emit(ctx, [type |-> "store_chosen_deployment", inv |-> c.inv,
                      len |-> meta.len])
      [] c.kind = "JournalEntry" ->
           handle_journal_entry(ctx, st, c.inv, c.idx, c.entry, meta, dbg)
      [] c.kind = "Suspended" ->
           IF dbg /\ c.wf = {} THEN Panic(ctx)
           ELSE IF \E entry_index \in c.wf :
                       Fails(st, "is_entry_resumable", c.inv, entry_index)
                THEN Err(ctx)
           ELSE IF \E entry_index \in c.wf : is_entry_resumable(st, c.inv, entry_index)
                THEN Emit(ctx, [type |-> "resume_service", inv |-> c.inv,
                                len |-> meta.len])
                ELSE Emit(ctx, [type |-> "suspend_service", inv |-> c.inv,
                                len |-> meta.len, wf |-> c.wf])
      [] c.kind = "End" -> end_invocation(ctx, c.inv, meta)
      [] OTHER -> fail_invocation(ctx, c.inv, meta, c.error)

\* variant: a Suspended invocation is treated as an Invoked one
try_invoker_effect_active(ctx, st, c, dbg) ==
    LET s == get_invocation_status(st, c.inv) IN
    IF Fails(st, "get_invocation_status", c.inv, 0) THEN Err(ctx)
    ELSE IF s.tag \in {"Invoked", "Suspended"} THEN on_invoker_effect(ctx, st, c, s, dbg)
    ELSE Emit(ctx, [type |-> "abort_invocation", inv |-> c.inv])

\* variant: an effect for an invocation that is not Invoked is only traced
try_invoker_effect_ignoring(ctx, st, c, dbg) ==
    LET s == get_invocation_status(st, c.inv) IN
    IF Fails(st, "get_invocation_status", c.inv, 0) THEN Err(ctx)
    ELSE IF s.tag = "Invoked" THEN on_invoker_effect(ctx, st, c, s, dbg)
    ELSE ctx

try_invoker_effect(ctx, st, c, dbg) ==
    LET s == get_invocation_status(st, c.inv) IN
    IF Fails(st, "get_invocation_status", c.inv, 0) THEN Err(ctx)
    ELSE IF s.tag = "Invoked" THEN on_invoker_effect(ctx, st, c, s, dbg)
    ELSE Emit(ctx, [type |-> "abort_invocation", inv |-> c.inv])

\* variant: a completion resumes a Suspended invocation whatever it waits for
handle_completion_resuming(ctx, st, i, idx, result) ==
    LET s == get_invocation_status(st, i) IN
    IF Fails(st, "get_invocation_status", i, 0) THEN Err(ctx) ELSE
    CASE s.tag = "Invoked" -> handle_completion_for_invoked(ctx, i, idx, result)
      [] s.tag = "Suspended" ->
           Emit(handle_completion_for_suspended(ctx, i, idx, result),
                [type |-> "resume_service", inv |-> i, len |-> s.len])
      [] OTHER -> ctx

handle_completion(ctx, st, i, idx, result) ==
    LET s == get_invocation_status(st, i) IN
    IF Fails(st, "get_invocation_status", i, 0) THEN Err(ctx) ELSE
    CASE s.tag = "Invoked" -> handle_completion_for_invoked(ctx, i, idx, result)
      [] s.tag = "Suspended" ->
           IF idx \in s.wf
           THEN Emit(handle_completion_for_suspended(ctx, i, idx, result),
                     [type |-> "resume_service", inv |-> i, len |-> s.len])
           ELSE handle_completion_for_suspended(ctx, i, idx, result)
      [] OTHER -> ctx

\* variant: a fired Invoke timer invokes without consulting the object
on_timer_unlocked(ctx, st, timer) ==
    LET deleted == Emit(ctx, [type |-> "delete_timer",
                              key |-> [inv |-> timer.inv, idx |-> timer.idx,
                                       time |-> timer.time]]) IN
    IF timer.kind = "CompleteSleepEntry"
    THEN handle_completion(deleted, st, timer.inv, timer.idx, "Empty")
    ELSE Emit(deleted, [type |-> "invoke_service", inv |-> timer.inv])

\* variant: the execution time of a fired Invoke timer is not cleared
on_timer_rescheduling(ctx, st, timer) ==
    LET deleted == Emit(ctx, [type |-> "delete_timer",
                              key |-> [inv |-> timer.inv, idx |-> timer.idx,
                                       time |-> timer.time]]) IN
    IF timer.kind = "CompleteSleepEntry"
    THEN handle_completion(deleted, st, timer.inv, timer.idx, "Empty")
    ELSE handle_invoke(deleted, st, timer.si)

on_timer(ctx, st, timer) ==
    LET deleted == Emit(ctx, [type |-> "delete_timer",
                              key |-> [inv |-> timer.inv, idx |-> timer.idx,
                                       time |-> timer.time]]) IN
    IF timer.kind = "CompleteSleepEntry"
    THEN handle_completion(deleted, st, timer.inv, timer.idx, "Empty")
    ELSE handle_invoke(deleted, st, [timer.si EXCEPT !.execution_time = 0])

(* ----------------------- built-in invoker effects ---------------------- *)
\* variant: a built-in service that ends with an error ends like a successful one
on_built_in_invoker_effect_silent(ctx, i, meta, nbis_effect) ==
    CASE nbis_effect = "SetState" ->
           Emit(ctx, [type |-> "set_state", obj |-> ObjOf(i), inv |-> i])
      [] nbis_effect = "ClearState" ->
           Emit(ctx, [type |-> "clear_state", obj |-> ObjOf(i), inv |-> i])
      [] nbis_effect = "OutboxMessage" ->
           handle_outgoing_message(ctx, [type |-> "BuiltIn", inv |-> i])
      [] nbis_effect \in {"End(None)", "End(Some)"} -> end_invocation(ctx, i, meta)
      [] OTHER -> ingress_response(ctx, i, "ok")

on_built_in_invoker_effect(ctx, i, meta, nbis_effect) ==
    CASE nbis_effect = "SetState" ->
           Emit(ctx, [type |-> "set_state", obj |-> ObjOf(i), inv |-> i])
      [] nbis_effect = "ClearState" ->
           Emit(ctx, [type |-> "clear_state", obj |-> ObjOf(i), inv |-> i])
      [] nbis_effect = "OutboxMessage" ->
           handle_outgoing_message(ctx, [type |-> "BuiltIn", inv |-> i])
      [] nbis_effect = "End(None)" -> end_invocation(ctx, i, meta)
      [] nbis_effect = "End(Some)" -> fail_invocation(ctx, i, meta, "failed")
      [] OTHER -> ingress_response(ctx, i, "ok")

RECURSIVE built_in_effects_from(_, _, _, _, _)
built_in_effects_from(ctx, i, meta, nbis_effects, k) ==
    IF k > Len(nbis_effects) THEN ctx
    ELSE built_in_effects_from(
            on_built_in_invoker_effect(ctx, i, meta, nbis_effects[k]),
            i, meta, nbis_effects, k + 1)

\* variant: an invocation that is not Invoked is aborted, as for invoker effects
try_built_in_invoker_effect_aborting(ctx, st, c) ==
    LET s == get_invocation_status(st, c.inv) IN
    IF Fails(st, "get_invocation_status", c.inv, 0) THEN Err(ctx)
    ELSE IF s.tag = "Invoked" THEN built_in_effects_from(ctx, c.inv, s, c.nbis, 1)
    ELSE Emit(ctx, [type |-> "abort_invocation", inv |-> c.inv])

try_built_in_invoker_effect(ctx, st, c) ==
    LET s == get_invocation_status(st, c.inv) IN
    IF Fails(st, "get_invocation_status", c.inv, 0) THEN Err(ctx)
    ELSE IF s.tag = "Invoked" THEN built_in_effects_from(ctx, c.inv, s, c.nbis, 1)
    ELSE ctx

(* ------------------------------ on_apply ------------------------------- *)
\* variant: TruncateOutbox truncates up to the outbox counter
dispatch_truncating_all(ctx, st, c, now, dbg) ==
    CASE c.type = "Invoke" -> handle_invoke(ctx, st, c.si)
      [] c.type = "InvocationResponse" ->
           handle_completion(ctx, st, c.inv, c.idx, c.result)
      [] c.type = "InvokerEffect" -> try_invoker_effect(ctx, st, c, dbg)
      [] c.type = "TruncateOutbox" ->
           Emit(ctx, [type |-> "truncate_outbox", idx |-> ctx.outb])
      [] c.type = "Timer" -> on_timer(ctx, st, c.timer)
      [] c.type = "TerminateInvocation" -> try_terminate_invocation(ctx, st, c, now)
      [] c.type = "BuiltInInvokerEffect" -> try_built_in_invoker_effect(ctx, st, c)
      [] c.type = "PatchState" -> handle_external_state_mutation(ctx, st, c)
      [] OTHER -> ctx

\* the match of on_apply on the command
dispatch(ctx, st, c, now, dbg) ==
    CASE c.type = "Invoke" -> handle_invoke(ctx, st, c.si)
      [] c.type = "InvocationResponse" ->
           handle_completion(ctx, st, c.inv, c.idx, c.result)
      [] c.type = "InvokerEffect" -> try_invoker_effect(ctx, st, c, dbg)
      [] c.type = "TruncateOutbox" ->
           Emit(ctx, [type |-> "truncate_outbox", idx |-> c.idx])
      [] c.type = "Timer" -> on_timer(ctx, st, c.timer)
      [] c.type = "TerminateInvocation" -> try_terminate_invocation(ctx, st, c, now)
      [] c.type = "BuiltInInvokerEffect" -> try_built_in_invoker_effect(ctx, st, c)
      [] c.type = "PatchState" -> handle_external_state_mutation(ctx, st, c)
      [] OTHER -> ctx

\* the tuple (Option<FullInvocationId>, SpanRelation) of an on_apply that
\* returns Ok: fid -1 is None, span is "None" or the "parent" relation of the
\* invocation's span context
on_apply_returns(c, st) ==
    LET none == [fid |-> -1, span |-> "None"]
        of_status(i, tags) ==
            IF get_invocation_status(st, i).tag \in tags
            THEN [fid |-> i, span |-> "parent"] ELSE none
        of_termination(i, full) ==
            IF get_invocation_status(st, i).tag \in {"Invoked", "Suspended"}
               \/ get_inboxed_invocation(st, i) # -1
            THEN [fid |-> i, span |-> "parent"]
            ELSE IF full THEN [fid |-> i, span |-> "None"] ELSE none
    IN
    CASE c.type = "Invoke" -> handle_invoke_returns(st, c.si)
      [] c.type = "InvocationResponse" -> of_status(c.inv, {"Invoked", "Suspended"})
      [] c.type \in {"InvokerEffect", "BuiltInInvokerEffect"} ->
           IF get_invocation_status(st, c.inv).tag = "Invoked"
           THEN [fid |-> c.inv, span |-> "parent"]
           ELSE [fid |-> c.inv, span |-> "None"]
      [] c.type = "Timer" ->
           IF c.timer.kind = "CompleteSleepEntry"
           THEN of_status(c.timer.inv, {"Invoked", "Suspended"})
           ELSE handle_invoke_returns(st, [c.timer.si EXCEPT !.execution_time = 0])
      [] c.type = "TerminateInvocation" -> of_termination(c.inv, c.full)
      [] OTHER -> none

\* variant: every command starts by reading the status of the object
on_apply_reading(c, st, inb, outb, now, dbg) ==
    LET r == dispatch(Ctx(inb, outb), st, c, now, dbg) IN
    IF Fails(st, "get_virtual_object_status", 0, 0) THEN Err(Ctx(inb, outb))
    ELSE IF r.res = "panic" THEN Panic(Ctx(inb, outb)) ELSE r

\* on_apply from counters inb and outb with the wall clock reading now, in a
\* build with (dbg) or without debug assertions. A panic leaves no effects and
\* ends the interpreter, which restarts with the counters of the storage. An
\* Err leaves the buffer and the counters as they are when the read fails.
on_apply(c, st, inb, outb, now, dbg) ==
    LET r == dispatch(Ctx(inb, outb), st, c, now, dbg) IN
    IF r.res = "panic" THEN Panic(Ctx(inb, outb)) ELSE r

(* ------------------- committing the effects to storage ----------------- *)
EmptyJournal == [idx \in Indexes |-> NoEntry]

mutate_state(st, obj) == [st EXCEPT !.kv[obj] = "v"]

\* lock the object, store the Invoked status and the input entry at index 0
invoke_service(st, i) ==
    [st EXCEPT !.vobj[ObjOf(i)] = i,
               !.status[i] = Invoked(1),
               !.journal[i] = [EmptyJournal EXCEPT ![0] = Entry("Input", FALSE, 0, "", 0)]]

\* pop inbox entries until the first invocation, which is invoked; state
\* mutations on the way are applied; an inbox run empty unlocks the object
RECURSIVE pop_from_inbox(_, _)
pop_from_inbox(st, obj) ==
    IF st.inbox[obj] = <<>> THEN [st EXCEPT !.vobj[obj] = 0]
    ELSE LET head == Head(st.inbox[obj])
             popped == [st EXCEPT !.inbox[obj] = Tail(@)] IN
         IF head.kind = "Invocation" THEN invoke_service(popped, head.inv)
         ELSE pop_from_inbox(mutate_state(popped, obj), obj)

store_completion(st, i, idx, result) ==
    IF st.journal[i][idx].kind = "Entry"
    THEN [st EXCEPT !.journal[i][idx] = write_completion(@, result)]
    ELSE [st EXCEPT !.journal[i][idx] = CompletionEntry(result)]

\* TimerKey { invocation_uuid, journal_index, timestamp } of a timer value
TimerKey(t) == [inv |-> t.inv, idx |-> t.idx, time |-> t.time]

interpret_effect(st, e) ==
    CASE e.type = "invoke_service" -> invoke_service(st, e.inv)
      [] e.type \in {"resume_service", "store_chosen_deployment"} ->
           [st EXCEPT !.status[e.inv] = Invoked(e.len)]
      [] e.type = "suspend_service" ->
           [st EXCEPT !.status[e.inv] = Suspended(e.len, e.wf)]
      [] e.type = "drop_journal_and_pop_inbox" ->
           pop_from_inbox([st EXCEPT !.journal[e.inv] = EmptyJournal,
                                     !.status[e.inv] = Free],
                          ObjOf(e.inv))
      [] e.type = "append_journal_entry" ->
           [st EXCEPT !.journal[e.inv][e.idx] = e.entry,
                      !.status[e.inv] = Invoked(e.idx + 1)]
      [] e.type = "store_completion" -> store_completion(st, e.inv, e.idx, e.result)
      [] e.type = "set_state" -> [st EXCEPT !.kv[e.obj] = "v"]
      [] e.type \in {"clear_state", "clear_all_state"} -> [st EXCEPT !.kv[e.obj] = ""]
      [] e.type = "apply_state_mutation" -> mutate_state(st, e.obj)
      [] e.type = "enqueue_into_inbox" ->
           [st EXCEPT !.inbox[e.entry.obj] =
               Append(@, [seq |-> e.seq, kind |-> e.entry.kind, inv |-> e.entry.inv])]
      [] e.type = "delete_inbox_entry" ->
           [st EXCEPT !.inbox[e.obj] = SelectSeq(@, LAMBDA x : x.seq # e.seq)]
      [] e.type = "enqueue_into_outbox" -> [st EXCEPT !.outbox = Append(@, e.seq)]
      [] e.type = "truncate_outbox" ->
           [st EXCEPT !.outbox = SelectSeq(@, LAMBDA x : x > e.idx)]
      [] e.type = "register_timer" ->
           [st EXCEPT !.timers = {t \in @ : TimerKey(t) # TimerKey(e.timer)}
                                 \cup {e.timer}]
      [] e.type = "delete_timer" ->
           [st EXCEPT !.timers = {t \in @ : TimerKey(t) # e.key}]
      [] OTHER -> st

\* Interpreter::interpret_effects over the buffer, in emission order, then commit
RECURSIVE interpret_effects(_, _, _)
interpret_effects(st, effs, k) ==
    IF k > Len(effs) THEN st
    ELSE interpret_effects(interpret_effect(st, effs[k]), effs, k + 1)

(* ------------------------------ commands ------------------------------- *)
NoSi == [inv |-> 0, execution_time |-> 0, out |-> <<>>]
\* the effect lists a deterministic built-in service returns
BuiltInOutputs == {<<"IngressResponse">>, <<"OutboxMessage", "IngressResponse">>}
\* the effect lists a BuiltInInvokerEffect command carries
BuiltInEffectLists ==
    {<<x>> : x \in {"SetState", "ClearState", "OutboxMessage", "End(None)",
                    "End(Some)", "IngressResponse"}}
    \cup {<<>>, <<"SetState", "End(None)">>, <<"OutboxMessage", "End(Some)">>}

InvokeCmd(i, t, out) ==
    [type |-> "Invoke", si |-> [inv |-> i, execution_time |-> t, out |-> out]]
InvocationResponseCmd(i, idx, result) ==
    [type |-> "InvocationResponse", inv |-> i, idx |-> idx, result |-> result]
InvokerEffectCmd(i, kind, idx, entry, wf) ==
    [type |-> "InvokerEffect", inv |-> i, kind |-> kind, idx |-> idx,
     entry |-> entry, wf |-> wf, error |-> "failed"]
TerminateCmd(i, full, flavor) ==
    [type |-> "TerminateInvocation", inv |-> i, full |-> full, flavor |-> flavor]

\* the sets of awaited entries a Suspended effect may carry
WaitingSets(idxs) == {{}, idxs} \cup {{idx} : idx \in idxs}

\* the journal indexes and entries of the commands of Spec
LifeIndexes == 0 .. (LifeJournalLen - 1)
LifeMenu(i, idx) ==
    {Entry("Invoke", FALSE, ChildOf(i, idx), "", 0),
     Entry("Output", FALSE, 0, "", 0)}

\* the InvokerEffect commands for invocation i with journal indexes idxs and
\* the entries of EntryMenu (full) or LifeMenu
InvokerEffects(i, idxs, full) ==
    {InvokerEffectCmd(i, kind, 0, NoEntry, {}) :
        kind \in {"SelectedDeployment", "End", "Failed"}}
    \cup UNION {{InvokerEffectCmd(i, "JournalEntry", idx, entry, {}) :
                    entry \in IF full THEN EntryMenu(i, idx)
                              ELSE LifeMenu(i, idx)} : idx \in idxs}
    \cup {InvokerEffectCmd(i, "Suspended", 0, NoEntry, wf) : wf \in WaitingSets(idxs)}

SeqNumbers(effs, type) ==
    LET sel == SelectSeq(effs, LAMBDA e : e.type = type) IN
    [k \in 1 .. Len(sel) |-> sel[k].seq]

\* the results on_apply may return for c in this state: one for each reading
\* of the wall clock
Results(c) ==
    {on_apply(c, Storage, inbox_seq_number, outbox_seq_number, now, debug_assertions) :
        now \in Clock}

(* ---------------------------- failing reads ---------------------------- *)
\* the reads of the StateReader a command about invocation i may make
ReadsOf(i) ==
    {Read("get_virtual_object_status", 0, 0)}
    \cup {Read(op, i, 0) : op \in {"get_invocation_status", "get_inboxed_invocation",
                                   "load_state", "load_state_keys"}}
    \cup {Read(op, i, idx) : op \in {"is_entry_resumable", "load_completion_result",
                                     "get_journal"},
                             idx \in Indexes}

\* the storage with the reads of f returning Err(StorageError)
FailingStorage(f) == [Storage EXCEPT !.fail = f]

\* the results on_apply may return for c in this state when the reads of f fail
FailingResults(c, f) ==
    {on_apply(c, FailingStorage(f), inbox_seq_number, outbox_seq_number, now,
              debug_assertions) : now \in Clock}

\* PartitionProcessor::run on consensus::Command::Apply: clear the buffer,
\* on_apply, interpret the effects and commit them
Apply(c) ==
    \E r \in Results(c) :
        LET st == interpret_effects(Storage, r.eff, 1) IN
        /\ r.inb <= MaxInboxSeq /\ r.outb <= MaxOutboxSeq
        /\ inbox_seq_number' = r.inb
        /\ outbox_seq_number' = r.outb
        /\ status' = st.status
        /\ vobj' = st.vobj
        /\ journal' = st.journal
        /\ inbox' = st.inbox
        /\ kv' = st.kv
        /\ timers' = st.timers
        /\ outbox' = st.outbox
        /\ hist' = [hist EXCEPT
                      !.inbox = @ \o SeqNumbers(r.eff, "enqueue_into_inbox"),
                      !.outbox = @ \o SeqNumbers(r.eff, "enqueue_into_outbox")]
        /\ UNCHANGED <<debug_assertions, run>>

IsActive(i) == status[i].tag \in {"Invoked", "Suspended"}
IsInboxed(i) == get_inboxed_invocation(Storage, i) # -1

(* ------------------------------- actions ------------------------------- *)
\* the invocations of the commands of Spec
LifeInvs == {1, 2}
Invoke ==
    \E i \in LifeInvs \ started, t \in {0, SomeTime} :
        /\ Apply(InvokeCmd(i, t, <<>>))
        /\ started' = started \cup {i}

InvokeBuiltIn ==
    \E out \in BuiltInOutputs :
        /\ Apply(InvokeCmd(BuiltInInv, 0, out))
        /\ UNCHANGED started

InvocationResponse ==
    \E i \in LifeInvs, idx \in LifeIndexes :
        /\ Apply(InvocationResponseCmd(i, idx, "Success"))
        /\ UNCHANGED started

\* the invoker reports the entries of a journal in order
InvokerEffect ==
    \E i \in LifeInvs : \E c \in InvokerEffects(i, LifeIndexes, FALSE) :
        /\ c.kind = "JournalEntry" => c.idx = status[i].len
        /\ Apply(c)
        /\ UNCHANGED started

\* the shuffler truncates up to a message of the outbox
TruncateOutbox ==
    \E k \in 1 .. Len(outbox) :
        /\ Apply([type |-> "TruncateOutbox", idx |-> outbox[k]])
        /\ UNCHANGED started

\* the timer service fires a registered timer
Timer ==
    \E timer \in timers :
        /\ Apply([type |-> "Timer", timer |-> timer])
        /\ UNCHANGED started

TerminateInvocation ==
    \E i \in LifeInvs, full \in BOOLEAN, flavor \in {"Kill", "Cancel"} :
        /\ Apply(TerminateCmd(i, full, flavor))
        /\ UNCHANGED started

BuiltInInvokerEffect ==
    \E i \in LifeInvs, nbis \in BuiltInEffectLists :
        /\ Apply([type |-> "BuiltInInvokerEffect", inv |-> i, nbis |-> nbis])
        /\ UNCHANGED started

PatchState ==
    \E obj \in Objects :
        /\ Apply([type |-> "PatchState", obj |-> obj])
        /\ UNCHANGED started

AnnounceLeader ==
    /\ Apply([type |-> "AnnounceLeader"])
    /\ UNCHANGED started

\* the storage with no invocation
EmptyStorage ==
    [status |-> [i \in Invocations |-> Free], vobj |-> [o \in Objects |-> 0],
     journal |-> [i \in Invocations |-> EmptyJournal],
     inbox |-> [o \in Objects |-> <<>>], kv |-> [o \in Objects |-> ""],
     timers |-> {}, outbox |-> <<>>, fail |-> {}]

\* PartitionProcessor::run before its loop: a follower with an empty Effects
\* buffer. pc is the statement the loop stands at, turn the number of loop
\* iterations begun, ack whether the command in hand carries an ack target,
\* eff the Effects buffer, tx the open storage transaction, events what the
\* loop has done, each with the iteration it was done in.
RunInit ==
    [pc |-> "select", turn |-> 0, ack |-> FALSE, eff |-> <<>>,
     tx |-> EmptyStorage, leader |-> FALSE, events |-> <<>>]

\* CommandInterpreter::new(inbox_seq_number, outbox_seq_number, ..) over a
\* storage with no invocation
Init ==
    /\ inbox_seq_number = InitInboxSeq
    /\ outbox_seq_number = InitOutboxSeq
    /\ debug_assertions \in BOOLEAN
    /\ status = [i \in Invocations |-> Free]
    /\ vobj = [o \in Objects |-> 0]
    /\ journal = [i \in Invocations |-> EmptyJournal]
    /\ inbox = [o \in Objects |-> <<>>]
    /\ kv = [o \in Objects |-> ""]
    /\ timers = {}
    /\ outbox = <<>>
    /\ started = {}
    /\ hist = [inbox |-> <<>>, outbox |-> <<>>]
    /\ run = RunInit

Next ==
    \/ Invoke
    \/ InvokeBuiltIn
    \/ InvocationResponse
    \/ InvokerEffect
    \/ TruncateOutbox
    \/ Timer
    \/ TerminateInvocation
    \/ BuiltInInvokerEffect
    \/ PatchState
    \/ AnnounceLeader

Spec == Init /\ [][Next]_vars

(* ---- one invocation, reporting every kind of journal entry ---- *)
JournalInvs == {1}

JInvoke ==
    \E i \in JournalInvs \ started :
        /\ Apply(InvokeCmd(i, 0, <<>>))
        /\ started' = started \cup {i}

JInvocationResponse ==
    \E i \in JournalInvs, idx \in Indexes :
        /\ Apply(InvocationResponseCmd(i, idx, "Success"))
        /\ UNCHANGED started

\* the invoker reports the entries of a journal in order
JInvokerEffect ==
    \E i \in JournalInvs : \E c \in InvokerEffects(i, Indexes, TRUE) :
        /\ c.kind = "JournalEntry" => c.idx = status[i].len
        /\ Apply(c)
        /\ UNCHANGED started

JTerminateInvocation ==
    \E i \in JournalInvs, flavor \in {"Kill", "Cancel"} :
        /\ Apply(TerminateCmd(i, TRUE, flavor))
        /\ UNCHANGED started

NextJournal ==
    \/ JInvoke
    \/ JInvocationResponse
    \/ JInvokerEffect
    \/ Timer
    \/ JTerminateInvocation

SpecJournal == Init /\ [][NextJournal]_vars

(* ---- the same invocation, its entries as the entry enricher hands them
        to the invoker ---- *)
\* variant: the target of an Invoke is not resolved
enrich_entry_unresolved(i, idx, raw_entry) == [raw_entry EXCEPT !.enr = 0]

\* EntryEnricher::enrich_entry: the target of an Invoke that is not completed
\* and of a BackgroundInvoke is resolved; a completed Invoke gets None
enrich_entry(i, idx, raw_entry) ==
    IF raw_entry.type = "BackgroundInvoke"
       \/ (raw_entry.type = "Invoke" /\ ~raw_entry.completed)
    THEN [raw_entry EXCEPT !.enr = ChildOf(i, idx)]
    ELSE [raw_entry EXCEPT !.enr = 0]

JEnrichedInvokerEffect ==
    \E i \in JournalInvs : \E c \in InvokerEffects(i, Indexes, TRUE) :
        /\ c.kind = "JournalEntry" => c.idx = status[i].len
        /\ Apply(IF c.kind = "JournalEntry"
                 THEN [c EXCEPT !.entry = enrich_entry(i, c.idx, c.entry)]
                 ELSE c)
        /\ UNCHANGED started

NextEnriched ==
    \/ JInvoke
    \/ JInvocationResponse
    \/ JEnrichedInvokerEffect
    \/ Timer
    \/ JTerminateInvocation

SpecEnriched == Init /\ [][NextEnriched]_vars

(* ---- three invocations of one object, queued behind its lock ---- *)
InboxInvoke ==
    \E i \in Invocations \ started :
        /\ Apply(InvokeCmd(i, 0, <<>>))
        /\ started' = started \cup {i}

\* the invoker reports the next entry of the lock holder's journal, or that
\* the holder suspended on its last entry
InboxInvokerEffect ==
    \E i \in Invocations :
        /\ status[i].tag = "Invoked"
        /\ \E c \in {InvokerEffectCmd(i, "JournalEntry", status[i].len, entry, {}) :
                        entry \in LifeMenu(i, status[i].len)}
                    \cup {InvokerEffectCmd(i, "Suspended", 0, NoEntry,
                                           {status[i].len - 1})} :
              /\ c.kind = "JournalEntry" => status[i].len \in Indexes
              /\ c.kind = "Suspended" => status[i].len > 1
              /\ Apply(c)
        /\ UNCHANGED started

\* the completion a suspended holder waits for arrives
InboxCompletion ==
    \E i \in Invocations :
        /\ status[i].tag = "Suspended"
        /\ \E idx \in status[i].wf : Apply(InvocationResponseCmd(i, idx, "Success"))
        /\ UNCHANGED started

\* the lock holder ends: the invoker reports End or Failed, or a Kill arrives
HolderEnds ==
    \E i \in Invocations :
        /\ IsActive(i)
        /\ \E c \in {InvokerEffectCmd(i, kind, 0, NoEntry, {}) : kind \in {"End", "Failed"}}
                    \cup {TerminateCmd(i, TRUE, "Kill")} : Apply(c)
        /\ UNCHANGED started

\* a Kill or Cancel arrives for an invocation that waits in the inbox
TerminateInboxed ==
    \E i \in Invocations, full \in BOOLEAN, flavor \in {"Kill", "Cancel"} :
        /\ IsInboxed(i)
        /\ Apply(TerminateCmd(i, full, flavor))
        /\ UNCHANGED started

NextInbox ==
    \/ InboxInvoke
    \/ InboxInvokerEffect
    \/ InboxCompletion
    \/ HolderEnds
    \/ TerminateInboxed
    \/ PatchState

SpecInbox == Init /\ [][NextInbox]_vars

(* ---- the same three invocations with journals left alone; every lock
        holder ends eventually ---- *)
NextQueue ==
    \/ InboxInvoke
    \/ HolderEnds
    \/ TerminateInboxed
    \/ PatchState

SpecQueue == Init /\ [][NextQueue]_vars /\ WF_vars(HolderEnds)

(* ------------------- the loop of PartitionProcessor::run --------------- *)
\* the loop has done what in the iteration it is in
Did(what) == [run EXCEPT !.events = Append(@, <<what, run.turn>>)]
\* an Err propagated by ? out of run
RunFailed(what) == [Did(what) EXCEPT !.pc = "failed"]

RunStorageUnchanged ==
    UNCHANGED <<status, vobj, journal, inbox, kv, timers, outbox>>
RunInterpreterUnchanged ==
    UNCHANGED <<inbox_seq_number, outbox_seq_number, debug_assertions, hist>>

\* the commands the command stream of SpecRun delivers for Apply
RunCommands ==
    {InvokeCmd(i, 0, <<>>) : i \in LifeInvs \ started}
    \cup {InvokerEffectCmd(i, kind, 0, NoEntry, {}) :
            i \in LifeInvs, kind \in {"End", "Failed"}}
    \cup {TerminateCmd(i, TRUE, "Kill") : i \in LifeInvs}
    \cup {[type |-> "PatchState", obj |-> obj] : obj \in Objects}

\* Effects::clear(): the buffer keeps its capacity and holds no effect
clear(effects) == <<>>

\* variant: the buffer is not cleared before on_apply
RunApply_uncleared ==
    /\ run.pc = "select" /\ run.turn < MaxTurns
    /\ \E c \in RunCommands, ack \in BOOLEAN :
       \E f \in {{}} \cup {{Read("get_invocation_status", i, 0)} : i \in LifeInvs}
                     \cup {{Read("get_virtual_object_status", 0, 0)}} :
       \E r \in FailingResults(c, f) :
          LET taken == [run EXCEPT !.turn = @ + 1, !.ack = ack, !.eff = run.eff \o r.eff,
                                   !.events = Append(@, <<"apply", run.turn + 1>>)] IN
          /\ r.inb <= MaxInboxSeq /\ r.outb <= MaxOutboxSeq
          /\ inbox_seq_number' = r.inb
          /\ outbox_seq_number' = r.outb
          /\ hist' = [hist EXCEPT
                        !.inbox = @ \o SeqNumbers(r.eff, "enqueue_into_inbox"),
                        !.outbox = @ \o SeqNumbers(r.eff, "enqueue_into_outbox")]
          /\ started' = IF c.type = "Invoke" /\ r.res = "ok"
                        THEN started \cup {c.si.inv} ELSE started
          /\ run' = IF r.res = "ok"
                    THEN [taken EXCEPT !.pc = "interpret_effects",
                                       !.events = Append(@, <<"on_apply", taken.turn>>)]
                    ELSE [taken EXCEPT !.pc = "failed",
                                       !.events = Append(@, <<"on_apply failed", taken.turn>>)]
    /\ RunStorageUnchanged
    /\ UNCHANGED debug_assertions

\* select! yields consensus::Command::Apply(ackable_command): into_inner,
\* effects.clear(), state_machine.on_apply(..).await?
RunApply ==
    /\ run.pc = "select" /\ run.turn < MaxTurns
    /\ \E c \in RunCommands, ack \in BOOLEAN :
       \E f \in {{}} \cup {{Read("get_invocation_status", i, 0)} : i \in LifeInvs}
                     \cup {{Read("get_virtual_object_status", 0, 0)}} :
       \E r \in FailingResults(c, f) :
          LET taken == [run EXCEPT !.turn = @ + 1, !.ack = ack, !.eff = clear(run.eff) \o r.eff,
                                   !.events = Append(@, <<"apply", run.turn + 1>>)] IN
          /\ r.inb <= MaxInboxSeq /\ r.outb <= MaxOutboxSeq
          /\ inbox_seq_number' = r.inb
          /\ outbox_seq_number' = r.outb
          /\ hist' = [hist EXCEPT
                        !.inbox = @ \o SeqNumbers(r.eff, "enqueue_into_inbox"),
                        !.outbox = @ \o SeqNumbers(r.eff, "enqueue_into_outbox")]
          /\ started' = IF c.type = "Invoke" /\ r.res = "ok"
                        THEN started \cup {c.si.inv} ELSE started
          /\ run' = IF r.res = "ok"
                    THEN [taken EXCEPT !.pc = "interpret_effects",
                                       !.events = Append(@, <<"on_apply", taken.turn>>)]
                    ELSE [taken EXCEPT !.pc = "failed",
                                       !.events = Append(@, <<"on_apply failed", taken.turn>>)]
    /\ RunStorageUnchanged
    /\ UNCHANGED debug_assertions

\* partition_storage.create_transaction() and
\* Interpreter::interpret_effects(&mut effects, transaction, message_collector).await?
RunInterpretEffects ==
    /\ run.pc = "interpret_effects"
    /\ \/ run' = [Did("interpret_effects") EXCEPT
                      !.pc = "commit",
                      !.tx = interpret_effects(Storage, run.eff, 1)]
       \/ run' = RunFailed("interpret_effects failed")
    /\ RunStorageUnchanged /\ RunInterpreterUnchanged /\ UNCHANGED started

\* result.commit().await?
RunCommit ==
    /\ run.pc = "commit"
    /\ \/ /\ run' = [Did("commit") EXCEPT !.pc = "send", !.tx = EmptyStorage]
          /\ status' = run.tx.status
          /\ vobj' = run.tx.vobj
          /\ journal' = run.tx.journal
          /\ inbox' = run.tx.inbox
          /\ kv' = run.tx.kv
          /\ timers' = run.tx.timers
          /\ outbox' = run.tx.outbox
       \/ /\ run' = RunFailed("commit failed")
          /\ RunStorageUnchanged
    /\ RunInterpreterUnchanged /\ UNCHANGED started

\* variant: a failed send is not propagated
RunSend_unchecked ==
    /\ run.pc = "send"
    /\ \/ run' = [Did("send") EXCEPT !.pc = "ack"]
       \/ run' = [Did("send failed") EXCEPT !.pc = "ack"]
    /\ RunStorageUnchanged /\ RunInterpreterUnchanged /\ UNCHANGED started

\* leadership_state = message_collector.send().await?
RunSend ==
    /\ run.pc = "send"
    /\ \/ run' = [Did("send") EXCEPT !.pc = "ack"]
       \/ run' = RunFailed("send failed")
    /\ RunStorageUnchanged /\ RunInterpreterUnchanged /\ UNCHANGED started

\* if let Some(ack_target) = ack_target { ack_tx.send(..).await? }
RunAck ==
    /\ run.pc = "ack"
    /\ \/ /\ run.ack
          /\ \/ run' = [Did("ack") EXCEPT !.pc = "select"]
             \/ run' = RunFailed("ack failed")
       \/ /\ ~run.ack
          /\ run' = [Did("no ack") EXCEPT !.pc = "select"]
    /\ RunStorageUnchanged /\ RunInterpreterUnchanged /\ UNCHANGED started

\* consensus::Command::BecomeLeader and BecomeFollower
RunLeadership ==
    /\ run.pc = "select" /\ run.turn < MaxTurns
    /\ \E leader \in BOOLEAN :
        LET taken == [run EXCEPT !.turn = @ + 1] IN
        \/ run' = [taken EXCEPT !.leader = leader,
                      !.events = Append(@, <<"leadership", taken.turn>>)]
        \/ run' = [taken EXCEPT !.pc = "failed",
                      !.events = Append(@, <<"leadership failed", taken.turn>>)]
    /\ RunStorageUnchanged /\ RunInterpreterUnchanged /\ UNCHANGED started

\* variant: an actuator message is taken up wherever the loop stands
RunActuatorMessage_anywhere ==
    /\ run.pc \notin {"failed", "shutdown"} /\ run.turn < MaxTurns /\ run.leader
    /\ LET taken == [run EXCEPT !.turn = @ + 1] IN
        \/ run' = [taken EXCEPT !.events = Append(@, <<"actuator", taken.turn>>)]
        \/ run' = [taken EXCEPT !.pc = "failed",
                      !.events = Append(@, <<"actuator closed", taken.turn>>)]
    /\ RunStorageUnchanged /\ RunInterpreterUnchanged /\ UNCHANGED started

\* select! yields an actuator message (a leader's actuator stream only):
\* propose_actuator_message; a closed stream is an error
RunActuatorMessage ==
    /\ run.pc = "select" /\ run.turn < MaxTurns /\ run.leader
    /\ LET taken == [run EXCEPT !.turn = @ + 1] IN
        \/ run' = [taken EXCEPT !.events = Append(@, <<"actuator", taken.turn>>)]
        \/ run' = [taken EXCEPT !.pc = "failed",
                      !.events = Append(@, <<"actuator closed", taken.turn>>)]
    /\ RunStorageUnchanged /\ RunInterpreterUnchanged /\ UNCHANGED started

\* select! yields the result of leadership_state.run_tasks(): Err(task_result)?
RunTasks ==
    /\ run.pc = "select" /\ run.turn < MaxTurns /\ run.leader
    /\ run' = [run EXCEPT !.turn = @ + 1, !.pc = "failed",
                  !.events = Append(@, <<"task failed", run.turn + 1>>)]
    /\ RunStorageUnchanged /\ RunInterpreterUnchanged /\ UNCHANGED started

\* the command stream ends: break, become_follower, Ok(())
RunShutdown ==
    /\ run.pc = "select"
    /\ run' = [run EXCEPT !.pc = "shutdown", !.leader = FALSE]
    /\ RunStorageUnchanged /\ RunInterpreterUnchanged /\ UNCHANGED started

NextRun ==
    \/ RunApply
    \/ RunInterpretEffects
    \/ RunCommit
    \/ RunSend
    \/ RunAck
    \/ RunLeadership
    \/ RunActuatorMessage
    \/ RunTasks
    \/ RunShutdown

SpecRun == Init /\ [][NextRun]_vars

(* ------------------------- the commands of a state --------------------- *)
\* every command the log may hand to on_apply in the current state
Commands ==
    {InvokeCmd(i, t, <<>>) : i \in Invocations, t \in {0, SomeTime}}
    \cup {InvokeCmd(BuiltInInv, 0, out) : out \in BuiltInOutputs}
    \cup {InvocationResponseCmd(i, idx, "Success") : i \in Invocations, idx \in Indexes}
    \cup UNION {InvokerEffects(i, Indexes, TRUE) : i \in Invocations}
    \cup {[type |-> "TruncateOutbox", idx |-> x] : x \in 0 .. MaxOutboxSeq}
    \cup {[type |-> "Timer", timer |-> t] : t \in timers}
    \cup {TerminateCmd(i, full, flavor) :
            i \in Invocations, full \in BOOLEAN, flavor \in {"Kill", "Cancel"}}
    \cup {[type |-> "BuiltInInvokerEffect", inv |-> i, nbis |-> nbis] :
            i \in Invocations, nbis \in BuiltInEffectLists}
    \cup {[type |-> "PatchState", obj |-> obj] : obj \in Objects}
    \cup {[type |-> "AnnounceLeader"]}

\* the effects of the given type in an Effects buffer
EffectsOf(effs, type) == SelectSeq(effs, LAMBDA e : e.type = type)


(* ------------------------------- claims -------------------------------- *)
\* C1: on_apply is deterministic: a command applied to the same storage from
\* the same counters returns the same effects, every field of every effect
\* included (the time of trace_invocation_result too), and the same counters,
\* whatever the wall clock reads during the call.
C1_on_apply_deterministic ==
    \A c \in Commands : Cardinality(Results(c)) = 1

\* C2: the sequence numbers of the enqueue_into_outbox effects emitted so far
\* are, in emission order, s, s+1, s+2, ... for the outbox_seq_number s given
\* to new(), and outbox_seq_number is s plus the number of these effects.
C2_outbox_seq_contiguous ==
    /\ \A k \in 1 .. Len(hist.outbox) : hist.outbox[k] = InitOutboxSeq + k - 1
    /\ outbox_seq_number = InitOutboxSeq + Len(hist.outbox)

\* several outbox messages were emitted, by more than one command
C2_witness ==
    /\ Len(hist.outbox) >= 2
    /\ outbox # <<>>

\* C3: the sequence numbers of the enqueue_into_inbox effects emitted so far,
\* for Invocation and StateMutation entries alike, are in emission order
\* s, s+1, s+2, ... for the inbox_seq_number s given to new(); the counter is
\* never below a number already used.
C3_inbox_seq_contiguous ==
    /\ \A k \in 1 .. Len(hist.inbox) : hist.inbox[k] = InitInboxSeq + k - 1
    /\ inbox_seq_number = InitInboxSeq + Len(hist.inbox)
    /\ \A k \in 1 .. Len(hist.inbox) : hist.inbox[k] < inbox_seq_number

\* an invocation and a state mutation wait in the same inbox
C3_witness ==
    /\ Len(hist.inbox) >= 2
    /\ \E obj \in Objects : \E p, q \in 1 .. Len(inbox[obj]) :
          /\ inbox[obj][p].kind = "Invocation"
          /\ inbox[obj][q].kind = "StateMutation"

\* C4: an InvokerEffect JournalEntry{index, entry} for an Invoked invocation
\* whose index differs from the journal length (a gap or a duplicate) emits
\* no append_journal_entry.
C4_append_only_at_length ==
    \A i \in Invocations : \A idx \in Indexes : \A entry \in EntryMenu(i, idx) :
        (status[i].tag = "Invoked" /\ idx # status[i].len) =>
            \A r \in Results(InvokerEffectCmd(i, "JournalEntry", idx, entry, {})) :
                EffectsOf(r.eff, "append_journal_entry") = <<>>

\* C5: a virtual object is Locked iff some invocation of it is Invoked or
\* Suspended, and the lock names that invocation.
C5_lock_iff_active ==
    \A obj \in Objects :
        /\ vobj[obj] # 0 <=> \E i \in Invocations : ObjOf(i) = obj /\ IsActive(i)
        /\ \A i \in Invocations : (ObjOf(i) = obj /\ IsActive(i)) => vobj[obj] = i

\* the lock has passed to a second invocation, now suspended, after the
\* first one ended
C5_witness ==
    \E i, j \in Invocations :
        /\ i # j /\ ObjOf(i) = ObjOf(j)
        /\ i \in started /\ status[i] = Free /\ ~IsInboxed(i)
        /\ vobj[ObjOf(j)] = j /\ status[j].tag = "Suspended"
        /\ hist.inbox # <<>>

\* C6: at most one invocation of an object is Invoked or Suspended, and no
\* command emits invoke_service for an object that is Locked.
C6_one_active_per_object ==
    /\ \A i, j \in Invocations :
          (IsActive(i) /\ IsActive(j) /\ ObjOf(i) = ObjOf(j)) => i = j
    /\ \A c \in Commands : \A r \in Results(c) : \A k \in 1 .. Len(r.eff) :
          r.eff[k].type = "invoke_service" => vobj[ObjOf(r.eff[k].inv)] = 0

\* the object is Locked by one invocation while the timer of a scheduled
\* invocation of it is registered; firing the timer enqueues the invocation
C6_witness ==
    \E t \in timers : \E j \in Invocations :
        /\ t.kind = "Invoke" /\ vobj[ObjOf(t.inv)] = j /\ j # t.inv
        /\ EffectsOf(on_apply([type |-> "Timer", timer |-> t], Storage,
                              inbox_seq_number, outbox_seq_number, 1,
                              debug_assertions).eff, "enqueue_into_inbox") # <<>>

\* the InvocationTermination messages in an Effects buffer
Terminations(effs) ==
    SelectSeq(effs, LAMBDA e : e.type = "enqueue_into_outbox"
                               /\ e.msg.type = "InvocationTermination")

\* the journal entry at idx of invocation i is an Invoke that is not completed
\* and whose enrichment result names child
IsUnfinishedChild(i, idx, child) ==
    /\ idx < status[i].len
    /\ journal[i][idx].kind = "Entry"
    /\ journal[i][idx].type = "Invoke"
    /\ ~journal[i][idx].completed
    /\ journal[i][idx].enr # 0
    /\ journal[i][idx].enr = child

\* C7: every InvocationTermination message a Kill or Cancel command emits
\* targets the child of a journal entry that is an Invoke with is_completed =
\* false and an enrichment result; none targets a completed Invoke, an Invoke
\* without enrichment, a BackgroundInvoke or another entry.
C7_terminations_target_unfinished_children ==
    \A i \in Invocations, full \in BOOLEAN, flavor \in {"Kill", "Cancel"} :
        \A r \in Results(TerminateCmd(i, full, flavor)) :
            LET ts == Terminations(r.eff) IN
            \A k \in 1 .. Len(ts) :
                /\ ts[k].msg.flavor = flavor
                /\ \E idx \in Indexes : IsUnfinishedChild(i, idx, ts[k].msg.inv)

\* the journal holds a child call that was completed and one that is not, and
\* a Kill terminates just the second
C7_witness ==
    \E i \in Invocations :
        /\ IsActive(i) /\ status[i].len = 3
        /\ journal[i][1] = Entry("Invoke", TRUE, ChildOf(i, 1), "Success", 0)
        /\ IsUnfinishedChild(i, 2, ChildOf(i, 2))
        /\ \A r \in Results(TerminateCmd(i, TRUE, "Kill")) :
              /\ Len(Terminations(r.eff)) = 1
              /\ Terminations(r.eff)[1].msg.inv = ChildOf(i, 2)

\* the one effect of a Suspended{waiting_for} invoker effect on invocation i
SuspendedOutcome(i, wf) ==
    IF \E idx \in wf : is_entry_resumable(Storage, i, idx)
    THEN [type |-> "resume_service", inv |-> i, len |-> status[i].len]
    ELSE [type |-> "suspend_service", inv |-> i, len |-> status[i].len, wf |-> wf]

\* C8 (as stated): an InvokerEffect Suspended{waiting_for} for an Invoked
\* invocation emits exactly one effect: resume_service if is_entry_resumable
\* holds for some index of waiting_for, suspend_service(metadata, waiting_for)
\* if it holds for none.
C8_suspended_one_effect ==
    \A i \in Invocations : \A wf \in WaitingSets(Indexes) :
        status[i].tag = "Invoked" =>
            \A r \in Results(InvokerEffectCmd(i, "Suspended", 0, NoEntry, wf)) :
                r.eff = <<SuspendedOutcome(i, wf)>>

\* C8 (amended): an InvokerEffect Suspended{waiting_for} with a non-empty
\* waiting_for for an Invoked invocation emits exactly one effect:
\* resume_service if is_entry_resumable holds for some index of waiting_for,
\* suspend_service(metadata, waiting_for) if it holds for none.
C8_suspended_one_effect_nonempty ==
    \A i \in Invocations : \A wf \in WaitingSets(Indexes) \ {{}} :
        status[i].tag = "Invoked" =>
            \A r \in Results(InvokerEffectCmd(i, "Suspended", 0, NoEntry, wf)) :
                /\ r.res = "ok"
                /\ r.eff = <<SuspendedOutcome(i, wf)>>
                /\ r.inb = inbox_seq_number /\ r.outb = outbox_seq_number

\* an Invoked invocation awaiting index 1 alone suspends, and awaiting every
\* index resumes, as the input entry at index 0 is resumable
C8_witness ==
    \E i \in Invocations :
        /\ status[i].tag = "Invoked" /\ status[i].len >= 2
        /\ ~is_entry_resumable(Storage, i, 1)
        /\ \A r \in Results(InvokerEffectCmd(i, "Suspended", 0, NoEntry, {1})) :
              r.eff[1].type = "suspend_service"
        /\ \A r \in Results(InvokerEffectCmd(i, "Suspended", 0, NoEntry, Indexes)) :
              r.eff[1].type = "resume_service"

\* C9: an InvokerEffect command of any kind for an invocation whose status is
\* not Invoked (Free, inboxed or Suspended) emits exactly one effect,
\* abort_invocation for that invocation, and changes neither counter.
C9_invoker_effect_not_invoked_aborts ==
    \A i \in Invocations : \A c \in InvokerEffects(i, Indexes, TRUE) :
        status[i].tag # "Invoked" =>
            \A r \in Results(c) :
                /\ r.res = "ok"
                /\ r.eff = <<[type |-> "abort_invocation", inv |-> i]>>
                /\ r.inb = inbox_seq_number
                /\ r.outb = outbox_seq_number

\* one invocation is Suspended while another waits in the inbox, and an End
\* reported for the suspended one is answered by abort_invocation
C9_witness ==
    \E i, j \in Invocations :
        /\ status[i].tag = "Suspended"
        /\ status[j] = Free /\ IsInboxed(j)
        /\ \A r \in Results(InvokerEffectCmd(i, "End", 0, NoEntry, {})) :
              r.eff = <<[type |-> "abort_invocation", inv |-> i]>>

\* C10: a PatchState for a Locked object emits exactly one enqueue_into_inbox,
\* of a StateMutation, and no apply_state_mutation; for an Unlocked object it
\* emits exactly one apply_state_mutation and no enqueue_into_inbox, and
\* inbox_seq_number stays.
C10_patch_state_by_lock ==
    \A obj \in Objects : \A r \in Results([type |-> "PatchState", obj |-> obj]) :
        LET enq == EffectsOf(r.eff, "enqueue_into_inbox")
            app == EffectsOf(r.eff, "apply_state_mutation") IN
        IF vobj[obj] # 0
        THEN /\ Len(enq) = 1 /\ enq[1].entry.kind = "StateMutation"
             /\ enq[1].entry.obj = obj
             /\ app = <<>>
        ELSE /\ Len(app) = 1 /\ app[1].obj = obj
             /\ enq = <<>>
             /\ r.inb = inbox_seq_number

\* a mutation was applied to the object while Unlocked, and now that it is
\* Locked a PatchState is enqueued behind a waiting mutation
C10_witness ==
    \E obj \in Objects :
        /\ kv[obj] = "v" /\ vobj[obj] # 0
        /\ \E p \in 1 .. Len(inbox[obj]) : inbox[obj][p].kind = "StateMutation"
        /\ \A r \in Results([type |-> "PatchState", obj |-> obj]) :
              /\ Len(EffectsOf(r.eff, "enqueue_into_inbox")) = 1
              /\ r.inb = inbox_seq_number + 1

\* C11: when on_apply returns an error, because a StateReader read fails at
\* some point of the command (part-way through a Kill or Cancel journal walk
\* included), inbox_seq_number and outbox_seq_number are what they were before
\* the command.
C11_counters_kept_on_error ==
    \A i \in Invocations : \A rd \in ReadsOf(i) :
        \A c \in {TerminateCmd(i, full, flavor) :
                    full \in BOOLEAN, flavor \in {"Kill", "Cancel"}}
                 \cup InvokerEffects(i, Indexes, TRUE)
                 \cup {InvocationResponseCmd(i, idx, "Success") : idx \in Indexes}
                 \cup {InvokeCmd(i, 0, <<>>), [type |-> "PatchState", obj |-> ObjOf(i)]} :
            \A r \in FailingResults(c, {rd}) :
                r.res = "error" =>
                    /\ r.inb = inbox_seq_number
                    /\ r.outb = outbox_seq_number

\* what begins an iteration of the loop of run, and what ends one
TurnBegins ==
    {"apply", "leadership", "leadership failed", "actuator", "actuator closed",
     "task failed"}
TurnEnds == {"ack", "no ack", "leadership", "actuator"}

\* C12: a command with an ack target is acknowledged only after its on_apply
\* succeeded, its effects were interpreted, the transaction was committed and
\* the messages were sent, in that order; a command whose on_apply,
\* interpretation, commit or send failed is never acknowledged.
C12_ack_after_commit_and_send ==
    \A k \in 1 .. Len(run.events) :
        LET n == run.events[k][2] IN
        /\ run.events[k][1] = "ack" =>
              /\ k > 5
              /\ run.events[k - 5] = <<"apply", n>>
              /\ run.events[k - 4] = <<"on_apply", n>>
              /\ run.events[k - 3] = <<"interpret_effects", n>>
              /\ run.events[k - 2] = <<"commit", n>>
              /\ run.events[k - 1] = <<"send", n>>
        /\ run.events[k][1] \in {"on_apply failed", "interpret_effects failed",
                                 "commit failed", "send failed"} =>
              /\ run.pc = "failed"
              /\ \A j \in 1 .. Len(run.events) : run.events[j] # <<"ack", n>>

\* one command was acknowledged, and the send of a later command with an ack
\* target failed after its commit
C12_witness ==
    /\ \E k \in 1 .. Len(run.events) : run.events[k][1] = "ack"
    /\ run.ack
    /\ run.events[Len(run.events)] = <<"send failed", run.turn>>
    /\ run.events[Len(run.events) - 1] = <<"commit", run.turn>>

\* C13: one command is in flight at a time: the loop takes up the next command
\* or actuator message only after the on_apply, commit, send and ack of the
\* command in hand are done, so what is done for one command is not
\* interleaved with anything done for another.
C13_one_command_in_flight ==
    \A k \in 2 .. Len(run.events) :
        /\ run.events[k - 1][2] <= run.events[k][2]
        /\ run.events[k][1] \in TurnBegins <=> run.events[k - 1][2] < run.events[k][2]
        /\ run.events[k][1] \in TurnBegins => run.events[k - 1][1] \in TurnEnds
        /\ run.events[k][1] = "on_apply" => run.events[k - 1][1] = "apply"

\* a leader proposed an actuator message right after a command was applied,
\* committed, sent and acknowledged
C13_witness ==
    \E k \in 6 .. Len(run.events) - 1 :
        /\ run.events[k][1] = "ack"
        /\ run.events[k - 2][1] = "commit"
        /\ run.events[k + 1][1] = "actuator"

\* C14 (as stated): the invocation that becomes lock holder out of the inbox
\* is the one with the smallest inbox sequence number of the invocations
\* queued, it does so at the step that ends the holder before it, and every
\* inboxed invocation is eventually invoked, every lock holder ending
\* eventually.
C14_inboxed_eventually_invoked ==
    /\ [][\A i \in Invocations :
            IsInboxed(i) /\ IsActive(i)' =>
                /\ vobj'[ObjOf(i)] = i
                /\ vobj[ObjOf(i)] \in Invocations \ {i}
                /\ status'[vobj[ObjOf(i)]] = Free
                /\ \A j \in Invocations :
                      IsInboxed(j) => get_inboxed_invocation(Storage, i)
                                        <= get_inboxed_invocation(Storage, j)]_vars
    /\ \A i \in Invocations : IsInboxed(i) ~> IsActive(i)

\* C14 (amended): an invocation leaves the inbox either as the new lock holder,
\* at the step that ends the holder before it and having the smallest inbox
\* sequence number of the invocations queued, or by a Kill or Cancel applied
\* to it, which leaves lock and holder as they are; a holder that ends with
\* invocations queued is followed by one of them; and every inboxed invocation
\* eventually leaves the inbox, every lock holder ending eventually.
C14_inbox_order ==
    /\ [][\A i \in Invocations :
            /\ IsInboxed(i) /\ ~IsInboxed(i)' =>
                  \/ /\ vobj'[ObjOf(i)] = i /\ IsActive(i)'
                     /\ vobj[ObjOf(i)] \in Invocations \ {i}
                     /\ status'[vobj[ObjOf(i)]] = Free
                     /\ \A j \in Invocations :
                           IsInboxed(j) => get_inboxed_invocation(Storage, i)
                                             <= get_inboxed_invocation(Storage, j)
                  \/ /\ ~IsActive(i)' /\ vobj' = vobj
                     /\ \A j \in Invocations \ {i} :
                           /\ status'[j] = status[j]
                           /\ IsInboxed(j)' = IsInboxed(j)
            /\ IsActive(i) /\ ~IsActive(i)' /\ (\E j \in Invocations : IsInboxed(j)) =>
                  \E j \in Invocations : IsInboxed(j) /\ vobj'[ObjOf(i)] = j]_vars
    /\ \A i \in Invocations : IsInboxed(i) ~> ~IsInboxed(i)

\* two invocations were queued behind the lock holder, the holder has ended,
\* and the one queued first holds the lock while the other still waits
C14_witness ==
    \E i, j \in Invocations :
        /\ i # j /\ IsActive(i) /\ IsInboxed(j)
        /\ Len(hist.inbox) >= 2
        /\ \E h \in started \ {i, j} : ~IsActive(h) /\ ~IsInboxed(h)

\* C15: a Kill of an Invoked or Suspended invocation emits, in this order: the
\* InvocationTermination::kill outbox messages, one for each live child; the
\* failure response carrying KILLED_INVOCATION_ERROR, to the ingress or as an
\* outbox message, if and only if the invocation has a response sink; the
\* trace_invocation_result with that error; drop_journal_and_pop_inbox; and
\* last the one abort_invocation of the killed invocation.
C15_kill_effect_order ==
    \A i \in Invocations, full \in BOOLEAN :
        IsActive(i) =>
            \A r \in Results(TerminateCmd(i, full, "Kill")) :
                LET n == Len(r.eff)
                    kills == Cardinality({idx \in Indexes :
                                            IsUnfinishedChild(i, idx, ChildOf(i, idx))})
                    resp == IF SinkOf(i) = "None" THEN 0 ELSE 1 IN
                /\ r.res = "ok"
                /\ n = kills + resp + 3
                /\ \A k \in 1 .. kills :
                      /\ r.eff[k].type = "enqueue_into_outbox"
                      /\ r.eff[k].msg.type = "InvocationTermination"
                      /\ r.eff[k].msg.flavor = "Kill"
                      /\ r.eff[k].seq = outbox_seq_number + k - 1
                /\ {r.eff[k].msg.inv : k \in 1 .. kills}
                      = {ChildOf(i, idx) : idx \in {x \in Indexes :
                                            IsUnfinishedChild(i, x, ChildOf(i, x))}}
                /\ SinkOf(i) = "Ingress" =>
                      r.eff[kills + 1] = [type |-> "send_ingress_response", inv |-> i,
                                          result |-> KILLED_INVOCATION_ERROR]
                /\ SinkOf(i) = "PartitionProcessor" =>
                      r.eff[kills + 1] =
                          [type |-> "enqueue_into_outbox", seq |-> outbox_seq_number + kills,
                           msg |-> [type |-> "ServiceResponse", inv |-> i,
                                    result |-> KILLED_INVOCATION_ERROR]]
                /\ r.eff[n - 2].type = "trace_invocation_result"
                /\ r.eff[n - 2].inv = i
                /\ r.eff[n - 2].result = KILLED_INVOCATION_ERROR
                /\ r.eff[n - 1] = [type |-> "drop_journal_and_pop_inbox", inv |-> i,
                                   len |-> status[i].len]
                /\ r.eff[n] = [type |-> "abort_invocation", inv |-> i]

\* an invocation without a response sink is suspended with a live child in its
\* journal, and one with a response sink is queued behind it
C15_witness ==
    \E i, j \in Invocations :
        /\ SinkOf(i) = "None" /\ status[i].tag = "Suspended"
        /\ \E idx \in Indexes : IsUnfinishedChild(i, idx, ChildOf(i, idx))
        /\ SinkOf(j) # "None" /\ IsInboxed(j)

\* C16: a Cancel of a Suspended invocation emits resume_service if and only if
\* its walk over the journal stored a canceled completion at an index that is
\* in waiting_for; resume_service is then emitted once, as the last effect,
\* after every store_completion and delete_timer of the walk.
C16_cancel_resumes_iff_awaited ==
    \A i \in Invocations, full \in BOOLEAN :
        status[i].tag = "Suspended" =>
            \A r \in Results(TerminateCmd(i, full, "Cancel")) :
                LET resumes == {k \in 1 .. Len(r.eff) : r.eff[k].type = "resume_service"}
                    stored == {r.eff[k].idx : k \in {x \in 1 .. Len(r.eff) :
                                  /\ r.eff[x].type = "store_completion"
                                  /\ r.eff[x].result = CANCELED_INVOCATION_ERROR}} IN
                /\ resumes # {} <=> stored \cap status[i].wf # {}
                /\ Cardinality(resumes) <= 1
                /\ \A k \in resumes :
                      /\ k = Len(r.eff)
                      /\ r.eff[k] = [type |-> "resume_service", inv |-> i,
                                     len |-> status[i].len]
                      /\ \A j \in 1 .. Len(r.eff) :
                            r.eff[j].type \in {"store_completion", "delete_timer"} => j < k

\* a suspended invocation waits for one of two entries a Cancel completes, a
\* sleep among them: the Cancel stores two completions, deletes the timer and
\* resumes; and it waits for none of them: the Cancel stores the completions
\* and does not resume
C16_witness ==
    \E i \in Invocations :
        /\ status[i].tag = "Suspended"
        /\ \A r \in Results(TerminateCmd(i, TRUE, "Cancel")) :
              /\ r.res = "ok"
              /\ Len(EffectsOf(r.eff, "store_completion")) = 2
              /\ Len(EffectsOf(r.eff, "delete_timer")) = 1
              /\ Len(EffectsOf(r.eff, "resume_service")) = 1
              /\ Cardinality(status[i].wf) = 1

\* C17 (as stated): a Cancel of an inboxed invocation emits delete_inbox_entry
\* for the invocation's inbox sequence number and a failure response carrying
\* CANCELED_INVOCATION_ERROR, and abort_invocation only if the id is a full one.
C17_cancel_inboxed_responds ==
    \A i \in Invocations, full \in BOOLEAN :
        IsInboxed(i) =>
            \A r \in Results(TerminateCmd(i, full, "Cancel")) :
                /\ \E k \in 1 .. Len(r.eff) :
                      r.eff[k] = [type |-> "delete_inbox_entry", obj |-> ObjOf(i),
                                  seq |-> get_inboxed_invocation(Storage, i)]
                /\ \E k \in 1 .. Len(r.eff) :
                      \/ r.eff[k] = [type |-> "send_ingress_response", inv |-> i,
                                     result |-> CANCELED_INVOCATION_ERROR]
                      \/ /\ r.eff[k].type = "enqueue_into_outbox"
                         /\ r.eff[k].msg = [type |-> "ServiceResponse", inv |-> i,
                                            result |-> CANCELED_INVOCATION_ERROR]
                /\ EffectsOf(r.eff, "abort_invocation") # <<>> => full

\* C17 (amended): a Cancel of an inboxed invocation emits, in this order, the
\* failure response carrying CANCELED_INVOCATION_ERROR if and only if the
\* invocation has a response sink, the trace_invocation_result with that
\* error, and delete_inbox_entry for the invocation's inbox sequence number;
\* it emits no abort_invocation, with a full id or a partial one.
C17_cancel_inboxed ==
    \A i \in Invocations, full \in BOOLEAN :
        IsInboxed(i) =>
            \A r \in Results(TerminateCmd(i, full, "Cancel")) :
                LET resp == IF SinkOf(i) = "None" THEN 0 ELSE 1 IN
                /\ r.res = "ok"
                /\ Len(r.eff) = resp + 2
                /\ SinkOf(i) = "Ingress" =>
                      r.eff[1] = [type |-> "send_ingress_response", inv |-> i,
                                  result |-> CANCELED_INVOCATION_ERROR]
                /\ SinkOf(i) = "PartitionProcessor" =>
                      r.eff[1] = [type |-> "enqueue_into_outbox", seq |-> outbox_seq_number,
                                  msg |-> [type |-> "ServiceResponse", inv |-> i,
                                           result |-> CANCELED_INVOCATION_ERROR]]
                /\ r.eff[resp + 1].type = "trace_invocation_result"
                /\ r.eff[resp + 1].inv = i
                /\ r.eff[resp + 1].result = CANCELED_INVOCATION_ERROR
                /\ r.eff[resp + 2] = [type |-> "delete_inbox_entry", obj |-> ObjOf(i),
                                      seq |-> get_inboxed_invocation(Storage, i)]
                /\ r.inb = inbox_seq_number
                /\ r.outb = outbox_seq_number + (IF SinkOf(i) = "PartitionProcessor"
                                                 THEN 1 ELSE 0)

\* an invocation with a response sink and one without wait in the inbox
C17_witness ==
    \E i, j \in Invocations :
        /\ IsInboxed(i) /\ SinkOf(i) = "None"
        /\ IsInboxed(j) /\ SinkOf(j) = "PartitionProcessor"

\* C18: a Kill or Cancel for an invocation that is neither Invoked, Suspended
\* nor inboxed emits exactly one abort_invocation if the id is a full one and
\* no effect if it is a partial one; both counters stay as they are.
C18_terminate_unknown ==
    \A i \in Invocations, full \in BOOLEAN, flavor \in {"Kill", "Cancel"} :
        ~IsActive(i) /\ ~IsInboxed(i) =>
            \A r \in Results(TerminateCmd(i, full, flavor)) :
                /\ r.res = "ok"
                /\ r.eff = IF full THEN <<[type |-> "abort_invocation", inv |-> i]>>
                           ELSE <<>>
                /\ r.inb = inbox_seq_number
                /\ r.outb = outbox_seq_number

\* one invocation has ended and one was never invoked, while a third holds the
\* lock with an invocation queued behind it at some time before
C18_witness ==
    \E i, j, h \in Invocations :
        /\ i \in started /\ ~IsActive(i) /\ ~IsInboxed(i)
        /\ j \notin started
        /\ IsActive(h) /\ hist.inbox # <<>>

\* C19 (as stated): an Awakeable entry arrives for an Invoked invocation at the
\* next index of its journal; if a completion is stored for that index, the
\* entry is appended with the completion written into it and forward_completion
\* is emitted before append_journal_entry; if none is stored, no
\* forward_completion is emitted.
C19_awakeable_completion_forwarded ==
    \A i \in Invocations, completed \in BOOLEAN :
        status[i].tag = "Invoked" /\ status[i].len \in Indexes =>
            LET idx == status[i].len
                e == Entry("Awakeable", completed, 0, "", 0)
                stored == journal[i][idx] IN
            \A r \in Results(InvokerEffectCmd(i, "JournalEntry", idx, e, {})) :
                LET forwards == {k \in 1 .. Len(r.eff) : r.eff[k].type = "forward_completion"}
                    appends == {k \in 1 .. Len(r.eff) : r.eff[k].type = "append_journal_entry"} IN
                IF stored.kind = "Completion"
                THEN /\ Cardinality(forwards) = 1 /\ Cardinality(appends) = 1
                     /\ \A k \in forwards :
                           /\ r.eff[k].idx = idx /\ r.eff[k].result = stored.result
                           /\ \A a \in appends : k < a
                     /\ \A a \in appends :
                           /\ r.eff[a].entry.completed
                           /\ r.eff[a].entry.result = stored.result
                ELSE forwards = {}

\* C19 (amended): an Awakeable entry arrives for an Invoked invocation. In a
\* build with debug assertions, an entry that arrives completed or at an index
\* other than the journal's length panics and emits nothing. Otherwise, if a
\* completion is stored for the index, the effects are forward_completion of
\* that completion, append_journal_entry of the entry with the completion
\* written into it and the stored-ack; if none is stored, they are
\* append_journal_entry of the entry as it came and the stored-ack.
C19_awakeable_uncompleted ==
    \A i \in Invocations, idx \in Indexes, completed \in BOOLEAN :
        status[i].tag = "Invoked" =>
            LET e == Entry("Awakeable", completed, 0, "", 0)
                stored == journal[i][idx]
                ack == [type |-> "send_stored_ack_to_invoker", inv |-> i, idx |-> idx] IN
            \A r \in Results(InvokerEffectCmd(i, "JournalEntry", idx, e, {})) :
                IF debug_assertions /\ (completed \/ idx # status[i].len)
                THEN r.res = "panic" /\ r.eff = <<>>
                ELSE /\ r.res = "ok"
                     /\ r.eff =
                          IF stored.kind = "Completion"
                          THEN <<[type |-> "forward_completion", inv |-> i, idx |-> idx,
                                  result |-> stored.result],
                                 [type |-> "append_journal_entry", inv |-> i,
                                  len |-> status[i].len, idx |-> idx,
                                  entry |-> Entry("Awakeable", TRUE, 0, stored.result, 0)],
                                 ack>>
                          ELSE <<[type |-> "append_journal_entry", inv |-> i,
                                  len |-> status[i].len, idx |-> idx, entry |-> e],
                                 ack>>

\* the completion of the entry an Invoked invocation reports next was applied
\* before the entry, which then arrives as an Awakeable
C19_witness ==
    \E i \in Invocations :
        /\ status[i].tag = "Invoked" /\ status[i].len = 2
        /\ journal[i][2].kind = "Completion"
        /\ journal[i][1].kind = "Entry"
        /\ \A r \in Results(InvokerEffectCmd(i, "JournalEntry", 2,
                                             Entry("Awakeable", FALSE, 0, "", 0), {})) :
              r.res = "ok" /\ r.eff[1].type = "forward_completion"

\* C20: an Invoke command whose execution_time is set emits exactly one
\* effect, register_timer of an Invoke timer with journal index 0, that time
\* and the invocation; it emits neither invoke_service nor enqueue_into_inbox;
\* it reads no object status (a failing status read does not change its
\* result); both counters stay as they are, and committing its effect changes
\* no lock, invocation status or inbox.
C20_scheduled_invoke_registers_timer ==
    \A c \in {InvokeCmd(i, SomeTime, <<>>) : i \in Invocations}
             \cup {InvokeCmd(BuiltInInv, SomeTime, out) : out \in BuiltInOutputs} :
        /\ \A r \in Results(c) :
              /\ r.res = "ok"
              /\ r.eff = <<[type |-> "register_timer",
                            timer |-> [kind |-> "Invoke", inv |-> c.si.inv, idx |-> 0,
                                       time |-> SomeTime, si |-> c.si]]>>
              /\ r.inb = inbox_seq_number
              /\ r.outb = outbox_seq_number
              /\ LET st == interpret_effects(Storage, r.eff, 1) IN
                 /\ st.vobj = vobj /\ st.status = status /\ st.inbox = inbox
                 /\ st.journal = journal
        /\ FailingResults(c, {Read("get_virtual_object_status", 0, 0)}) = Results(c)

\* an Invoke with an execution time was applied for an invocation while
\* another holds the lock of its object: its timer is registered, and it is
\* neither invoked nor inboxed
C20_witness ==
    \E t \in timers :
        /\ t.kind = "Invoke" /\ t.time = SomeTime
        /\ vobj[ObjOf(t.inv)] \notin {0, t.inv}
        /\ t.inv \in started
        /\ ~IsActive(t.inv) /\ ~IsInboxed(t.inv)

\* C21: a fired Timer::Invoke registers no timer again: the Timer command
\* emits delete_timer for the fired key and then what an Invoke of the same
\* invocation with no execution time emits, with that Invoke's counters: one
\* invoke_service if the object is unlocked, one enqueue_into_inbox if it is
\* locked, the built-in effects for a built-in service. A scheduled invocation
\* has one timer registered until it fires, and is neither invoked nor inboxed
\* before.
C21_fired_invoke_timer ==
    /\ \A si \in {InvokeCmd(i, SomeTime, <<>>).si : i \in Invocations}
                 \cup {InvokeCmd(BuiltInInv, SomeTime, out).si : out \in BuiltInOutputs} :
          LET timer == [kind |-> "Invoke", inv |-> si.inv, idx |-> 0,
                        time |-> SomeTime, si |-> si] IN
          \A r \in Results([type |-> "Timer", timer |-> timer]) :
              /\ r.res = "ok"
              /\ r.eff # <<>>
              /\ r.eff[1] = [type |-> "delete_timer",
                             key |-> [inv |-> si.inv, idx |-> 0, time |-> SomeTime]]
              /\ EffectsOf(r.eff, "register_timer") = <<>>
              /\ \E r0 \in Results(InvokeCmd(si.inv, 0, si.out)) :
                    /\ Tail(r.eff) = r0.eff
                    /\ r.inb = r0.inb /\ r.outb = r0.outb
              /\ si.inv # BuiltInInv =>
                    /\ Len(r.eff) = 2
                    /\ r.eff[2].type = IF vobj[ObjOf(si.inv)] = 0 THEN "invoke_service"
                                       ELSE "enqueue_into_inbox"
    /\ \A t \in timers :
          t.kind = "Invoke" =>
              /\ ~IsActive(t.inv) /\ ~IsInboxed(t.inv)
              /\ \A u \in timers : u.kind = "Invoke" /\ u.inv = t.inv => u = t

\* the timer of a scheduled invocation is about to fire while another
\* invocation holds the lock of its object and the inbox is not empty: the
\* Timer command deletes the timer and queues the invocation
C21_witness ==
    \E t \in timers :
        /\ t.kind = "Invoke"
        /\ vobj[ObjOf(t.inv)] \notin {0, t.inv}
        /\ inbox[ObjOf(t.inv)] # <<>>
        /\ \A r \in Results([type |-> "Timer", timer |-> t]) :
              Len(EffectsOf(r.eff, "enqueue_into_inbox")) = 1

\* C22: an InvokerEffect Suspended with an empty waiting_for is rejected: for
\* an Invoked invocation it emits neither suspend_service nor resume_service,
\* and no invocation is Suspended with an empty set of awaited entries.
C22_empty_waiting_for_rejected ==
    \A i \in Invocations :
        /\ status[i].tag = "Invoked" =>
              \A r \in Results(InvokerEffectCmd(i, "Suspended", 0, NoEntry, {})) :
                  /\ EffectsOf(r.eff, "suspend_service") = <<>>
                  /\ EffectsOf(r.eff, "resume_service") = <<>>
        /\ status[i].tag = "Suspended" => status[i].wf # {}

\* C23: in every journal built from the entries the entry enricher hands over
\* and from completions, an entry that the Cancel walk does not cancel (it is
\* not an unfinished Invoke with enrichment, Awakeable, GetState or Sleep)
\* reports completed or has no completion flag, so the walk's assertion holds:
\* no Cancel of an Invoked or Suspended invocation panics.
C23_cancel_walk_assertion_holds ==
    \A i \in Invocations :
        IsActive(i) =>
            /\ \A idx \in Indexes :
                  idx < status[i].len /\ journal[i][idx].kind = "Entry" =>
                      \/ header_is_completed(journal[i][idx]) # "Some(false)"
                      \/ journal[i][idx].type \in {"Awakeable", "Sleep"}
                      \/ journal[i][idx].type = "Invoke" /\ journal[i][idx].enr # 0
            /\ \A full \in BOOLEAN : \A r \in Results(TerminateCmd(i, full, "Cancel")) :
                  r.res = "ok"

\* the journal of an invocation holds a GetStateKeys entry, stored completed,
\* and an Invoke that is not completed and names its child
C23_witness ==
    \E i \in Invocations :
        /\ IsActive(i) /\ status[i].len = 3
        /\ journal[i][1].type = "GetStateKeys" /\ journal[i][1].completed
        /\ journal[i][2].type = "Invoke" /\ ~journal[i][2].completed
        /\ journal[i][2].enr = ChildOf(i, 2)

\* C24: an Invoke with no execution time, for a service that is no built-in,
\* whose object is Unlocked, emits the one effect invoke_service(si), leaves
\* both counters as they are and returns (Some(fid), parent span of si).
C24_invoke_unlocked ==
    \A i \in Invocations :
        vobj[ObjOf(i)] = 0 =>
            /\ \A r \in Results(InvokeCmd(i, 0, <<>>)) :
                  /\ r.res = "ok"
                  /\ r.eff = <<[type |-> "invoke_service", inv |-> i]>>
                  /\ r.inb = inbox_seq_number
                  /\ r.outb = outbox_seq_number
            /\ handle_invoke_returns(Storage, InvokeCmd(i, 0, <<>>).si)
                  = [fid |-> i, span |-> "parent"]

\* the object is unlocked after both counters were advanced, one invocation
\* is Free after its Invoke was applied, and another was not invoked yet
C24_witness ==
    \E i \in started, j \in Invocations \ started :
        /\ vobj[ObjOf(j)] = 0 /\ status[i] = Free
        /\ inbox_seq_number > InitInboxSeq
        /\ outbox_seq_number > InitOutboxSeq

\* C25: an Invoke with no execution time, for a service that is no built-in,
\* whose object is Locked, emits the one effect enqueue_into_inbox(n,
\* Invocation(si)) with n the inbox_seq_number before the command, and leaves
\* inbox_seq_number at n + 1 and outbox_seq_number as it is; it emits no
\* invoke_service.
C25_invoke_locked ==
    \A i \in Invocations :
        vobj[ObjOf(i)] # 0 =>
            \A r \in Results(InvokeCmd(i, 0, <<>>)) :
                /\ r.res = "ok"
                /\ r.eff = <<[type |-> "enqueue_into_inbox", seq |-> inbox_seq_number,
                              entry |-> [kind |-> "Invocation", inv |-> i,
                                         obj |-> ObjOf(i)]]>>
                /\ r.inb = inbox_seq_number + 1
                /\ r.outb = outbox_seq_number
                /\ EffectsOf(r.eff, "invoke_service") = <<>>

\* the object is locked, a state mutation waits in its inbox, and an
\* invocation that was not invoked yet is about to be queued behind it
C25_witness ==
    \E j \in Invocations \ started :
        /\ vobj[ObjOf(j)] # 0
        /\ inbox[ObjOf(j)] # <<>>
        /\ inbox_seq_number > InitInboxSeq

\* C26: a GetState entry that is not completed, reported at the next index of
\* an Invoked invocation's journal, emits, in this order, forward_completion of
\* r at that index, append_journal_entry of the entry with r written into it,
\* and send_stored_ack_to_invoker, r being Success(v) if the object's state
\* holds v for the key and Empty if it holds nothing; a GetState entry that
\* arrives completed emits no forward_completion and is appended as it came.
C26_get_state_completed_on_arrival ==
    \A i \in Invocations :
        status[i].tag = "Invoked" /\ status[i].len \in Indexes =>
            LET idx == status[i].len
                r0 == IF kv[ObjOf(i)] # "" THEN "Success" ELSE "Empty"
                ack == [type |-> "send_stored_ack_to_invoker", inv |-> i, idx |-> idx] IN
            /\ \A r \in Results(InvokerEffectCmd(i, "JournalEntry", idx,
                                                 Entry("GetState", FALSE, 0, "", 0), {})) :
                  /\ r.res = "ok"
                  /\ r.eff = <<[type |-> "forward_completion", inv |-> i, idx |-> idx,
                                result |-> r0],
                               [type |-> "append_journal_entry", inv |-> i,
                                len |-> status[i].len, idx |-> idx,
                                entry |-> Entry("GetState", TRUE, 0, r0, 0)],
                               ack>>
            /\ \A r \in Results(InvokerEffectCmd(i, "JournalEntry", idx,
                                                 Entry("GetState", TRUE, 0, "", 0), {})) :
                  /\ r.res = "ok"
                  /\ r.eff = <<[type |-> "append_journal_entry", inv |-> i,
                                len |-> status[i].len, idx |-> idx,
                                entry |-> Entry("GetState", TRUE, 0, "", 0)],
                               ack>>

\* the state of the object was set by an earlier entry of the journal, and
\* the next entry reported is a GetState: its completion is Success
C26_witness ==
    \E i \in Invocations :
        /\ status[i].tag = "Invoked" /\ status[i].len = 2
        /\ journal[i][1].type = "SetState"
        /\ kv[ObjOf(i)] # ""
        /\ \A r \in Results(InvokerEffectCmd(i, "JournalEntry", 2,
                                             Entry("GetState", FALSE, 0, "", 0), {})) :
              r.eff[1].result = "Success"

\* C27: a JournalEntry invoker effect applied to an Invoked invocation that
\* returns Ok, whatever the entry and whether or not a read of the storage
\* fails, ends with append_journal_entry at the entry's index followed by
\* send_stored_ack_to_invoker for that index as its last two effects, and
\* holds no other append_journal_entry or stored-ack; one that returns an
\* error, or panics, appends nothing.
C27_append_then_ack_last ==
    \A i \in Invocations, idx \in Indexes :
        status[i].tag = "Invoked" =>
            \A e \in EntryMenu(i, idx) :
                \A f \in {{}} \cup {{Read(op, i, x)} :
                            op \in {"load_state", "load_state_keys",
                                    "load_completion_result"}, x \in {0, idx}} :
                    \A r \in FailingResults(InvokerEffectCmd(i, "JournalEntry", idx, e, {}), f) :
                        LET n == Len(r.eff) IN
                        IF r.res = "ok"
                        THEN /\ n >= 2
                             /\ r.eff[n - 1].type = "append_journal_entry"
                             /\ r.eff[n - 1].idx = idx
                             /\ r.eff[n - 1].entry.type = e.type
                             /\ r.eff[n] = [type |-> "send_stored_ack_to_invoker",
                                            inv |-> i, idx |-> idx]
                             /\ Len(EffectsOf(r.eff, "append_journal_entry")) = 1
                             /\ Len(EffectsOf(r.eff, "send_stored_ack_to_invoker")) = 1
                        ELSE EffectsOf(r.eff, "append_journal_entry") = <<>>

\* the journal of an Invoked invocation holds a child call, the outbox counter
\* is advanced, and the entry reported next, a BackgroundInvoke, emits its
\* trace and an outbox message before its append and ack
C27_witness ==
    \E i \in Invocations :
        /\ status[i].tag = "Invoked" /\ status[i].len = 2
        /\ journal[i][1].type = "Invoke"
        /\ outbox_seq_number > InitOutboxSeq
        /\ \A r \in Results(InvokerEffectCmd(i, "JournalEntry", 2,
                  Entry("BackgroundInvoke", FALSE, ChildOf(i, 2), "", 0), {})) :
              /\ Len(r.eff) = 4
              /\ r.eff[1].type = "trace_background_invoke"
              /\ r.eff[2].type = "enqueue_into_outbox"
              /\ r.eff[3].type = "append_journal_entry"

\* C28: every command that answers an invocation (an Output entry reported for
\* an Invoked invocation, a Failed invoker effect on an Invoked invocation, a
\* kill of an active invocation, a kill or cancel of an inboxed one) and
\* returns Ok emits the response exactly once: as one enqueue_into_outbox of a
\* ServiceResponse and no send_ingress_response when the sink is a partition
\* processor, as one send_ingress_response and no such outbox message when the
\* sink is ingress, and as neither when there is no sink. The outbox messages
\* of the buffer carry the consecutive sequence numbers from
\* outbox_seq_number on and the counter advances by their number, so the
\* response takes the next number when it is enqueued and an ingress response
\* leaves the counter alone.
C28_one_response_effect ==
    \A i \in Invocations :
        LET answering ==
                (IF status[i].tag = "Invoked"
                 THEN {InvokerEffectCmd(i, "JournalEntry", idx,
                                        Entry("Output", FALSE, 0, "", 0), {}) :
                          idx \in Indexes}
                      \cup {InvokerEffectCmd(i, "Failed", 0, NoEntry, {})}
                 ELSE {})
                \cup (IF IsActive(i) \/ IsInboxed(i)
                      THEN {TerminateCmd(i, TRUE, "Kill")} ELSE {})
                \cup (IF IsInboxed(i)
                      THEN {TerminateCmd(i, TRUE, "Cancel")} ELSE {})
        IN
        \A c \in answering :
            \A r \in Results(c) :
                r.res = "ok" =>
                    LET enq  == EffectsOf(r.eff, "enqueue_into_outbox")
                        toPP == SelectSeq(enq, LAMBDA e : e.msg.type = "ServiceResponse")
                        toIn == EffectsOf(r.eff, "send_ingress_response")
                        want == IF c.type = "TerminateInvocation"
                                THEN (IF c.flavor = "Kill" THEN KILLED_INVOCATION_ERROR
                                      ELSE CANCELED_INVOCATION_ERROR)
                                ELSE IF c.kind = "Failed" THEN c.error ELSE "output"
                    IN
                    /\ Len(toPP) = (IF SinkOf(i) = "PartitionProcessor" THEN 1 ELSE 0)
                    /\ Len(toIn) = (IF SinkOf(i) = "Ingress" THEN 1 ELSE 0)
                    /\ \A k \in 1 .. Len(toPP) :
                          toPP[k].msg = [type |-> "ServiceResponse", inv |-> i,
                                         result |-> want]
                    /\ \A k \in 1 .. Len(toIn) :
                          toIn[k] = [type |-> "send_ingress_response", inv |-> i,
                                     result |-> want]
                    /\ \A k \in 1 .. Len(enq) : enq[k].seq = outbox_seq_number + k - 1
                    /\ r.outb = outbox_seq_number + Len(enq)
                    /\ r.inb = inbox_seq_number

\* after the outbox counter has advanced, the invocation called from another
\* partition runs and the two others wait in the inbox: its Output entry takes
\* the current number, the kill of the one called from ingress answers by
\* send_ingress_response alone, and the kill of the one without a sink sends
\* nothing; neither kill moves the counter
C28_witness ==
    /\ outbox_seq_number > InitOutboxSeq
    /\ \E i, j, k \in Invocations :
        /\ SinkOf(i) = "PartitionProcessor" /\ SinkOf(j) = "Ingress" /\ SinkOf(k) = "None"
        /\ status[i].tag = "Invoked" /\ IsInboxed(j) /\ IsInboxed(k)
        /\ \A r \in Results(InvokerEffectCmd(i, "JournalEntry", status[i].len,
                                Entry("Output", FALSE, 0, "", 0), {})) :
              /\ r.eff[1].type = "enqueue_into_outbox"
              /\ r.eff[1].seq = outbox_seq_number
              /\ r.outb = outbox_seq_number + 1
        /\ \A r \in Results(TerminateCmd(j, TRUE, "Kill")) :
              /\ Len(EffectsOf(r.eff, "send_ingress_response")) = 1
              /\ r.outb = outbox_seq_number
        /\ \A r \in Results(TerminateCmd(k, TRUE, "Kill")) :
              /\ EffectsOf(r.eff, "send_ingress_response") = <<>>
              /\ EffectsOf(r.eff, "enqueue_into_outbox") = <<>>
              /\ r.eff # <<>>

\* C29: a BuiltInInvokerEffect command for an invocation whose status is not
\* Invoked (Free, Suspended, or Free while it waits in the inbox) returns Ok
\* with an empty effect buffer, whatever list of effects it carries, and with
\* both sequence counters as they were.
C29_built_in_effect_ignored ==
    \A i \in Invocations :
        status[i].tag # "Invoked" =>
            \A nbis \in BuiltInEffectLists :
                \A r \in Results([type |-> "BuiltInInvokerEffect", inv |-> i,
                                  nbis |-> nbis]) :
                    /\ r.res = "ok"
                    /\ r.eff = <<>>
                    /\ r.inb = inbox_seq_number
                    /\ r.outb = outbox_seq_number

\* one invocation is suspended and another waits in the inbox: an invoker
\* effect for either is answered by abort_invocation, a built-in invoker
\* effect carrying an outbox message and a failure by nothing
C29_witness ==
    \E i, j \in Invocations :
        /\ status[i].tag = "Suspended" /\ IsInboxed(j)
        /\ \A x \in {i, j} :
            /\ \A r \in Results(InvokerEffectCmd(x, "End", 0, NoEntry, {})) :
                  r.eff = <<[type |-> "abort_invocation", inv |-> x]>>
            /\ \A r \in Results([type |-> "BuiltInInvokerEffect", inv |-> x,
                                 nbis |-> <<"OutboxMessage", "End(Some)">>]) :
                  r.eff = <<>> /\ r.outb = outbox_seq_number

\* C30: for an Invoked invocation, the BuiltInInvokerEffect command carrying
\* the single effect End(Some(err)) returns the same effect buffer and the
\* same two counters as the InvokerEffect command Failed(err), and the one
\* carrying End(None) the same as the InvokerEffect command End; the former
\* answers the caller and traces the error, the latter traces success, and
\* both end with drop_journal_and_pop_inbox.
C30_built_in_end_as_invoker_end ==
    \A i \in Invocations :
        status[i].tag = "Invoked" =>
            LET built_in(x) == [type |-> "BuiltInInvokerEffect", inv |-> i,
                                nbis |-> <<x>>]
                view(rs) == {[res |-> r.res, eff |-> r.eff, inb |-> r.inb,
                              outb |-> r.outb] : r \in rs}
                failed == view(Results(InvokerEffectCmd(i, "Failed", 0, NoEntry, {})))
                ended  == view(Results(InvokerEffectCmd(i, "End", 0, NoEntry, {})))
            IN
            /\ view(Results(built_in("End(Some)"))) = failed
            /\ view(Results(built_in("End(None)"))) = ended
            /\ \A r \in failed :
                  LET n == Len(r.eff) IN
                  /\ r.res = "ok"
                  /\ n = (IF SinkOf(i) = "None" THEN 2 ELSE 3)
                  /\ r.eff[n - 1].type = "trace_invocation_result"
                  /\ r.eff[n - 1].result = "failed"
                  /\ r.eff[n] = [type |-> "drop_journal_and_pop_inbox", inv |-> i,
                                 len |-> status[i].len]
                  /\ r.outb = outbox_seq_number
                              + (IF SinkOf(i) = "PartitionProcessor" THEN 1 ELSE 0)
            /\ \A r \in ended :
                  /\ r.res = "ok"
                  /\ Len(r.eff) = 2
                  /\ r.eff[1].type = "trace_invocation_result"
                  /\ r.eff[1].result = "ok"
                  /\ r.eff[2] = [type |-> "drop_journal_and_pop_inbox", inv |-> i,
                                 len |-> status[i].len]
                  /\ r.outb = outbox_seq_number

\* an invocation called from another partition runs with a journal of two
\* entries after the outbox counter has advanced, and another invocation waits
\* in the inbox: End(Some(err)) enqueues the failure response under the current
\* number before the trace and the drop, End(None) does not
C30_witness ==
    \E i, j \in Invocations :
        /\ status[i].tag = "Invoked" /\ status[i].len = 2
        /\ SinkOf(i) = "PartitionProcessor"
        /\ IsInboxed(j)
        /\ outbox_seq_number > InitOutboxSeq
        /\ \A r \in Results([type |-> "BuiltInInvokerEffect", inv |-> i,
                             nbis |-> <<"End(Some)">>]) :
              /\ Len(r.eff) = 3
              /\ r.eff[1].type = "enqueue_into_outbox"
              /\ r.eff[1].seq = outbox_seq_number
        /\ \A r \in Results([type |-> "BuiltInInvokerEffect", inv |-> i,
                             nbis |-> <<"End(None)">>]) :
              /\ Len(r.eff) = 2
              /\ r.outb = outbox_seq_number

\* C31: a TruncateOutbox(x) command, for every index x up to the outbox
\* counter, returns Ok with the single effect truncate_outbox(x) and both
\* sequence counters as they were; once its effect is committed the outbox
\* holds no message numbered x or lower and keeps every other message, and
\* applying the same command to that storage emits the same effect and leaves
\* the storage as it is.
C31_truncate_outbox_idempotent ==
    \A x \in 0 .. MaxOutboxSeq :
        LET c == [type |-> "TruncateOutbox", idx |-> x] IN
        \A r \in Results(c) :
            LET once == interpret_effects(Storage, r.eff, 1) IN
            /\ r.res = "ok"
            /\ r.eff = <<[type |-> "truncate_outbox", idx |-> x]>>
            /\ r.outb = outbox_seq_number
            /\ r.inb = inbox_seq_number
            /\ once.outbox = SelectSeq(outbox, LAMBDA m : m > x)
            /\ [once EXCEPT !.outbox = outbox] = Storage
            /\ \A now \in Clock :
                  LET again == on_apply(c, once, r.inb, r.outb, now, debug_assertions) IN
                  /\ again.eff = r.eff
                  /\ again.outb = outbox_seq_number
                  /\ interpret_effects(once, again.eff, 1) = once

\* the outbox has been truncated: the message it holds is not the first one
\* ever enqueued. Truncating at the index already truncated removes nothing,
\* truncating at the held message empties the outbox
C31_witness ==
    /\ Len(outbox) = 1
    /\ outbox[1] > InitOutboxSeq
    /\ \A r \in Results([type |-> "TruncateOutbox", idx |-> outbox[1] - 1]) :
          /\ r.eff = <<[type |-> "truncate_outbox", idx |-> outbox[1] - 1]>>
          /\ interpret_effects(Storage, r.eff, 1).outbox = outbox
    /\ \A r \in Results([type |-> "TruncateOutbox", idx |-> outbox[1]]) :
          interpret_effects(Storage, r.eff, 1).outbox = <<>>

\* C32: an AnnounceLeader command returns Ok with an empty effect buffer, both
\* sequence counters as they were and the tuple (None, SpanRelation::None),
\* in every state and also when every read of the storage would fail, so it
\* reads no state.
C32_announce_leader_no_op ==
    LET c == [type |-> "AnnounceLeader"]
        every_read == UNION {ReadsOf(i) : i \in Invocations}
    IN
    \A f \in {{}, every_read} :
        /\ \A r \in FailingResults(c, f) :
              /\ r.res = "ok"
              /\ r.eff = <<>>
              /\ r.inb = inbox_seq_number
              /\ r.outb = outbox_seq_number
        /\ on_apply_returns(c, FailingStorage(f)) = [fid |-> -1, span |-> "None"]

\* a busy partition: one invocation runs, another waits in the inbox and the
\* outbox holds a message; here an invoker effect returns the invocation's id
\* with its span, and AnnounceLeader still emits nothing
C32_witness ==
    \E i, j \in Invocations :
        /\ status[i].tag = "Invoked" /\ IsInboxed(j)
        /\ outbox # <<>>
        /\ on_apply_returns(InvokerEffectCmd(i, "End", 0, NoEntry, {}), Storage)
              = [fid |-> i, span |-> "parent"]
        /\ \A r \in Results([type |-> "AnnounceLeader"]) : r.eff = <<>>

\* C33: every step of the run loop that takes a command and calls on_apply
\* leaves in the Effects buffer exactly the effects on_apply emitted for that
\* command from the storage and counters it was called with, with nothing of
\* an earlier command before them; and every commit writes exactly what the
\* interpretation of that buffer makes of the storage.
C33_buffer_cleared_before_on_apply ==
    [][/\ (run.pc = "select" /\ run'.turn = run.turn + 1
           /\ run'.pc \in {"interpret_effects", "failed"}
           /\ run'.events[Len(run'.events)][1] \in {"on_apply", "on_apply failed"})
          => \E c \in RunCommands :
             \E f \in {{}} \cup {{Read("get_invocation_status", i, 0)} : i \in LifeInvs}
                           \cup {{Read("get_virtual_object_status", 0, 0)}} :
             \E r \in FailingResults(c, f) :
                /\ run'.eff = r.eff
                /\ inbox_seq_number' = r.inb
                /\ outbox_seq_number' = r.outb
       /\ (run.pc = "commit" /\ run'.pc = "send")
          => /\ run.tx = interpret_effects(Storage, run.eff, 1)
             /\ Storage' = run.tx
      ]_vars

\* the loop stands between on_apply and interpret_effects in its second or
\* later iteration; the command before started an invocation (its
\* invoke_service was committed), and the buffer holds the two effects of the
\* End of that invocation and no invoke_service
C33_witness ==
    /\ run.pc = "interpret_effects" /\ run.turn >= 2
    /\ \E i \in Invocations :
        /\ status[i].tag = "Invoked"
        /\ Len(run.eff) = 2
        /\ run.eff[1].type = "trace_invocation_result"
        /\ run.eff[2] = [type |-> "drop_journal_and_pop_inbox", inv |-> i,
                         len |-> status[i].len]

\* C34: when the Kill of an Invoked or Suspended invocation has been applied
\* and its effects committed, an InvokerEffect of any kind for that invocation
\* (every entry at every index, every waiting set) applied to the resulting
\* storage returns Ok with the single effect abort_invocation, moves neither
\* counter and changes nothing in the storage when committed; and the same
\* holds in every later state, in which the invocation is neither active
\* nor in the inbox.
C34_late_invoker_effect_aborted ==
    \A i \in Invocations :
        LET aborted(r) == /\ r.res = "ok"
                          /\ r.eff = <<[type |-> "abort_invocation", inv |-> i]>>
        IN
        /\ IsActive(i) =>
              \A k \in Results(TerminateCmd(i, TRUE, "Kill")) :
                  k.res = "ok" =>
                      LET killed == interpret_effects(Storage, k.eff, 1) IN
                      /\ killed.status[i].tag = "Free"
                      /\ \A c \in InvokerEffects(i, Indexes, TRUE), now \in Clock :
                            LET r == on_apply(c, killed, k.inb, k.outb, now,
                                              debug_assertions) IN
                            /\ aborted(r)
                            /\ r.inb = k.inb /\ r.outb = k.outb
                            /\ interpret_effects(killed, r.eff, 1) = killed
        /\ (i \in started /\ ~IsActive(i) /\ ~IsInboxed(i)) =>
              \A c \in InvokerEffects(i, Indexes, TRUE) :
                  \A r \in Results(c) :
                      /\ aborted(r)
                      /\ r.inb = inbox_seq_number /\ r.outb = outbox_seq_number
                      /\ interpret_effects(Storage, r.eff, 1) = Storage

\* an invocation is suspended on its second entry, a call of a child that has
\* not completed: its kill terminates the child, fails it and aborts it, and
\* the Output entry the invoker sent before it learnt of the kill is answered
\* by abort_invocation alone
C34_witness ==
    \E i \in Invocations :
        /\ status[i].tag = "Suspended" /\ status[i].wf = {1}
        /\ journal[i][1].type = "Invoke" /\ ~journal[i][1].completed
        /\ journal[i][1].enr # 0
        /\ \A k \in Results(TerminateCmd(i, TRUE, "Kill")) :
              /\ k.res = "ok"
              /\ k.eff[1].type = "enqueue_into_outbox"
              /\ k.eff[Len(k.eff)] = [type |-> "abort_invocation", inv |-> i]
              /\ \A now \in Clock :
                    on_apply(InvokerEffectCmd(i, "JournalEntry", 2,
                                 Entry("Output", FALSE, 0, "", 0), {}),
                             interpret_effects(Storage, k.eff, 1), k.inb, k.outb,
                             now, debug_assertions).eff
                       = <<[type |-> "abort_invocation", inv |-> i]>>

\* C35: the Kill of an Invoked or Suspended invocation that returns Ok starts
\* its buffer with one InvocationTermination kill message for each journal
\* index below the journal length that holds an Invoke entry that is not
\* completed and carries an enrichment result: the k-th message names the
\* child of the k-th such index in ascending order and carries the outbox
\* number outbox_seq_number + k - 1; the buffer holds no other termination
\* message.
C35_kill_terminates_each_live_child ==
    \A i \in Invocations :
        IsActive(i) =>
            \A r \in Results(TerminateCmd(i, TRUE, "Kill")) :
                r.res = "ok" =>
                    LET live == {idx \in 0 .. (status[i].len - 1) :
                                    /\ journal[i][idx].kind = "Entry"
                                    /\ journal[i][idx].type = "Invoke"
                                    /\ ~journal[i][idx].completed
                                    /\ journal[i][idx].enr # 0}
                        n == Cardinality(live)
                        kills == SelectSeq(r.eff, LAMBDA e :
                                    /\ e.type = "enqueue_into_outbox"
                                    /\ e.msg.type = "InvocationTermination")
                    IN
                    /\ Len(kills) = n
                    /\ Len(r.eff) >= n
                    /\ \A k \in 1 .. n :
                          \E idx \in live :
                              /\ Cardinality({j \in live : j < idx}) = k - 1
                              /\ r.eff[k] = [type |-> "enqueue_into_outbox",
                                             seq |-> outbox_seq_number + k - 1,
                                             msg |-> [type |-> "InvocationTermination",
                                                      flavor |-> "Kill",
                                                      inv |-> journal[i][idx].enr]]

\* the journal of an active invocation holds two calls of children that have
\* not completed, at indexes 1 and 2: the kill terminates the child of entry 1
\* under the current outbox number and the child of entry 2 under the next
C35_witness ==
    \E i \in Invocations :
        /\ IsActive(i) /\ status[i].len = 3
        /\ \A idx \in {1, 2} :
              /\ journal[i][idx].type = "Invoke" /\ ~journal[i][idx].completed
              /\ journal[i][idx].enr = ChildOf(i, idx)
        /\ \A r \in Results(TerminateCmd(i, TRUE, "Kill")) :
              /\ r.eff[1].msg.inv = ChildOf(i, 1) /\ r.eff[1].seq = outbox_seq_number
              /\ r.eff[2].msg.inv = ChildOf(i, 2) /\ r.eff[2].seq = outbox_seq_number + 1
              /\ r.eff[3].type # "enqueue_into_outbox"

\* C36: the Cancel of an Invoked or Suspended invocation emits no
\* drop_journal_and_pop_inbox, abort_invocation, trace_invocation_result,
\* send_ingress_response or ServiceResponse outbox message, and once it is
\* committed the invocation is still active and still holds the lock of its
\* object. When it returns Ok, the store_completion effects are one for each
\* uncompleted Awakeable, GetState or Sleep entry of the journal, in index
\* order and with the canceled result; for an Invoked invocation each is
\* directly followed by the forward_completion of the same completion and no
\* resume_service is emitted; for a Suspended one no forward_completion is
\* emitted.
C36_cancel_keeps_invocation_running ==
    \A i \in Invocations :
        IsActive(i) =>
            \A r \in Results(TerminateCmd(i, TRUE, "Cancel")) :
                LET leaves == {idx \in 0 .. (status[i].len - 1) :
                                  /\ journal[i][idx].kind = "Entry"
                                  /\ journal[i][idx].type \in {"Awakeable", "GetState",
                                                               "Sleep"}
                                  /\ ~journal[i][idx].completed}
                    stores == EffectsOf(r.eff, "store_completion")
                    after  == interpret_effects(Storage, r.eff, 1)
                IN
                /\ \A k \in 1 .. Len(r.eff) :
                      /\ r.eff[k].type \notin {"drop_journal_and_pop_inbox",
                                               "abort_invocation",
                                               "trace_invocation_result",
                                               "send_ingress_response"}
                      /\ r.eff[k].type = "enqueue_into_outbox"
                            => r.eff[k].msg.type # "ServiceResponse"
                /\ after.status[i].tag \in {"Invoked", "Suspended"}
                /\ after.vobj[ObjOf(i)] = i
                /\ after.inbox = inbox
                /\ r.res = "ok" =>
                      /\ Len(stores) = Cardinality(leaves)
                      /\ \A k \in 1 .. Len(stores) :
                            /\ stores[k].idx \in leaves
                            /\ Cardinality({j \in leaves : j < stores[k].idx}) = k - 1
                            /\ stores[k].result = CANCELED_INVOCATION_ERROR
                      /\ status[i].tag = "Invoked" =>
                            /\ EffectsOf(r.eff, "resume_service") = <<>>
                            /\ \A k \in 1 .. Len(r.eff) :
                                  r.eff[k].type = "store_completion" =>
                                      /\ k < Len(r.eff)
                                      /\ r.eff[k + 1] =
                                            [type |-> "forward_completion", inv |-> i,
                                             idx |-> r.eff[k].idx,
                                             result |-> CANCELED_INVOCATION_ERROR]
                      /\ status[i].tag = "Suspended" =>
                            EffectsOf(r.eff, "forward_completion") = <<>>

\* a Suspended invocation waits for its Awakeable at index 1 and its Sleep at
\* index 2: its cancel stores the two canceled completions and forwards none
C36_witness ==
    \E i \in Invocations :
        /\ status[i].tag = "Suspended" /\ status[i].len = 3
        /\ journal[i][1].type = "Awakeable" /\ ~journal[i][1].completed
        /\ journal[i][2].type = "Sleep" /\ ~journal[i][2].completed
        /\ \A r \in Results(TerminateCmd(i, TRUE, "Cancel")) :
              /\ r.res = "ok"
              /\ Len(EffectsOf(r.eff, "store_completion")) = 2
              /\ EffectsOf(r.eff, "forward_completion") = <<>>

\* C37: a Sleep entry reported at index idx with wake-up time t registers a
\* timer whose key is (invocation, idx, t); a Cancel applied after that entry
\* is committed, if it returns Ok, deletes a timer under exactly this key, and
\* once it is committed the storage holds no timer of that entry. The same
\* holds for every uncompleted Sleep entry a journal already holds: its timer
\* is registered under (invocation, index, wake-up time of the entry), and the
\* Cancel deletes that key and leaves no timer of the entry.
C37_cancel_deletes_registered_timer ==
    \A i \in Invocations :
        /\ (status[i].tag = "Invoked" /\ status[i].len \in Indexes) =>
              \A t \in {SomeTime, SomeTime + 1} :
                  LET idx == status[i].len
                      c == InvokerEffectCmd(i, "JournalEntry", idx,
                                            Entry("Sleep", FALSE, 0, "", t), {})
                      key == [inv |-> i, idx |-> idx, time |-> t]
                  IN
                  \A r \in Results(c) :
                      LET registered == EffectsOf(r.eff, "register_timer")
                          slept == interpret_effects(Storage, r.eff, 1)
                      IN
                      /\ r.res = "ok"
                      /\ Len(registered) = 1
                      /\ TimerKey(registered[1].timer) = key
                      /\ \E tm \in slept.timers : TimerKey(tm) = key
                      /\ \A now \in Clock :
                            LET k == on_apply(TerminateCmd(i, TRUE, "Cancel"), slept,
                                              r.inb, r.outb, now, debug_assertions)
                                canceled == interpret_effects(slept, k.eff, 1)
                            IN
                            k.res = "ok" =>
                                /\ \E d \in 1 .. Len(k.eff) :
                                      k.eff[d] = [type |-> "delete_timer", key |-> key]
                                /\ \A tm \in canceled.timers :
                                      ~(tm.inv = i /\ tm.idx = idx)
        /\ IsActive(i) =>
              \A idx \in 0 .. (status[i].len - 1) :
                  (/\ journal[i][idx].kind = "Entry"
                   /\ journal[i][idx].type = "Sleep"
                   /\ ~journal[i][idx].completed) =>
                      LET key == [inv |-> i, idx |-> idx, time |-> journal[i][idx].t] IN
                      \A k \in Results(TerminateCmd(i, TRUE, "Cancel")) :
                          k.res = "ok" =>
                              /\ \E d \in 1 .. Len(k.eff) :
                                    k.eff[d] = [type |-> "delete_timer", key |-> key]
                              /\ \A tm \in interpret_effects(Storage, k.eff, 1).timers :
                                    ~(tm.inv = i /\ tm.idx = idx)

\* an invocation sleeps at index 1, its timer is registered and has not
\* fired, and it is suspended on that entry: the cancel deletes the timer and
\* the set of timers becomes empty
C37_witness ==
    \E i \in Invocations :
        /\ status[i].tag = "Suspended" /\ status[i].wf = {1}
        /\ journal[i][1].type = "Sleep" /\ ~journal[i][1].completed
        /\ timers = {[kind |-> "CompleteSleepEntry", inv |-> i, idx |-> 1,
                      time |-> SomeTime, si |-> NoSi]}
        /\ \A k \in Results(TerminateCmd(i, TRUE, "Cancel")) :
              /\ k.res = "ok"
              /\ interpret_effects(Storage, k.eff, 1).timers = {}

\* C38: an Invoke command without execution time for a deterministic built-in
\* service, whether its object is Locked or Unlocked, returns Ok with one
\* effect for each effect of the built-in service, in order: an
\* enqueue_into_outbox numbered from outbox_seq_number for an outbox message,
\* a send_ingress_response for an ingress response; so it emits neither
\* invoke_service nor enqueue_into_inbox, leaves inbox_seq_number, and once
\* committed leaves the lock, the statuses and the inbox as they were.
C38_built_in_invoke_bypasses_lock ==
    \A out \in BuiltInOutputs :
        \A r \in Results(InvokeCmd(BuiltInInv, 0, out)) :
            LET after == interpret_effects(Storage, r.eff, 1)
                sent(k) == Len(SelectSeq(SubSeq(out, 1, k),
                                         LAMBDA x : x = "OutboxMessage"))
            IN
            /\ r.res = "ok"
            /\ Len(r.eff) = Len(out)
            /\ \A k \in 1 .. Len(out) :
                  IF out[k] = "OutboxMessage"
                  THEN /\ r.eff[k].type = "enqueue_into_outbox"
                       /\ r.eff[k].seq = outbox_seq_number + sent(k) - 1
                  ELSE r.eff[k].type = "send_ingress_response"
            /\ r.inb = inbox_seq_number
            /\ r.outb = outbox_seq_number + sent(Len(out))
            /\ after.vobj = vobj
            /\ after.status = status
            /\ after.inbox = inbox
            /\ after.journal = journal

\* the object is locked by a running invocation and another waits in its
\* inbox: the built-in service answers with an outbox message under the
\* current number and an ingress response, and the inbox counter stays
C38_witness ==
    \E i, j \in Invocations :
        /\ vobj[ObjOf(BuiltInInv)] = i /\ status[i].tag = "Invoked"
        /\ IsInboxed(j)
        /\ \A r \in Results(InvokeCmd(BuiltInInv, 0, <<"OutboxMessage", "IngressResponse">>)) :
              /\ Len(r.eff) = 2
              /\ r.eff[1].seq = outbox_seq_number
              /\ r.inb = inbox_seq_number

\* C39: a completion for entry idx of invocation i, delivered by an
\* InvocationResponse command or by a fired CompleteSleepEntry timer (whose
\* result is Empty and whose first effect is the delete_timer of its key),
\* emits for an Invoked invocation store_completion then forward_completion;
\* for a Suspended one store_completion, followed by resume_service exactly
\* when idx is in waiting_for, and no forward_completion; for an invocation
\* that is Free, in the inbox or not, nothing. The counters do not move.
C39_completion_by_status ==
    \A i \in Invocations, idx \in Indexes :
        LET store(res) == [type |-> "store_completion", inv |-> i, idx |-> idx,
                           result |-> res]
            forward(res) == [type |-> "forward_completion", inv |-> i, idx |-> idx,
                             result |-> res]
            expected(res) ==
                IF status[i].tag = "Invoked" THEN <<store(res), forward(res)>>
                ELSE IF status[i].tag = "Suspended"
                THEN IF idx \in status[i].wf
                     THEN <<store(res), [type |-> "resume_service", inv |-> i,
                                         len |-> status[i].len]>>
                     ELSE <<store(res)>>
                ELSE <<>>
            key == [inv |-> i, idx |-> idx, time |-> SomeTime]
            fired == [type |-> "Timer",
                      timer |-> [kind |-> "CompleteSleepEntry", inv |-> i, idx |-> idx,
                                 time |-> SomeTime, si |-> NoSi]]
        IN
        /\ \A r \in Results(InvocationResponseCmd(i, idx, "Success")) :
              /\ r.res = "ok"
              /\ r.eff = expected("Success")
              /\ r.inb = inbox_seq_number /\ r.outb = outbox_seq_number
        /\ \A r \in Results(fired) :
              /\ r.res = "ok"
              /\ r.eff = <<[type |-> "delete_timer", key |-> key]>> \o expected("Empty")
              /\ r.inb = inbox_seq_number /\ r.outb = outbox_seq_number

\* one invocation is suspended on entry 1 and another waits in the inbox: the
\* completion of entry 1 stores and resumes, the completion of entry 0 only
\* stores, and a completion for the waiting invocation emits nothing
C39_witness ==
    \E i, j \in Invocations :
        /\ status[i].tag = "Suspended" /\ status[i].wf = {1}
        /\ IsInboxed(j)
        /\ \A r \in Results(InvocationResponseCmd(i, 1, "Success")) :
              /\ Len(r.eff) = 2 /\ r.eff[2].type = "resume_service"
        /\ \A r \in Results(InvocationResponseCmd(i, 0, "Success")) :
              /\ Len(r.eff) = 1 /\ r.eff[1].type = "store_completion"
        /\ \A r \in Results(InvocationResponseCmd(j, 0, "Success")) : r.eff = <<>>

\* C40: for every raw entry the invoker may report, at every index, the entry
\* the enricher produces has the type, the completion flag, the completion
\* result and the time of the raw entry; it carries a resolution result if and
\* only if it is a BackgroundInvoke or an Invoke whose completion flag is
\* false. In the journals built from enriched entries, an Invoke without
\* resolution result is completed, and a BackgroundInvoke names its target.
C40_enriched_invoke_resolved_iff_uncompleted ==
    \A i \in Invocations, idx \in Indexes :
        /\ \A raw_entry \in EntryMenu(i, idx) :
              LET e == enrich_entry(i, idx, raw_entry) IN
              /\ e.kind = raw_entry.kind
              /\ e.type = raw_entry.type
              /\ e.completed = raw_entry.completed
              /\ e.result = raw_entry.result
              /\ e.t = raw_entry.t
              /\ e.type = "Invoke" => (e.enr # 0 <=> ~e.completed)
              /\ e.type = "BackgroundInvoke" => e.enr # 0
              /\ e.type \notin {"Invoke", "BackgroundInvoke"} => e.enr = 0
              /\ e.enr # 0 => e.enr = ChildOf(i, idx)
        /\ (IsActive(i) /\ idx < status[i].len /\ journal[i][idx].kind = "Entry") =>
              /\ (journal[i][idx].type = "Invoke" /\ journal[i][idx].enr = 0)
                    => journal[i][idx].completed
              /\ journal[i][idx].type = "BackgroundInvoke"
                    => journal[i][idx].enr = ChildOf(i, idx)
              /\ journal[i][idx].type \notin {"Invoke", "BackgroundInvoke"}
                    => journal[i][idx].enr = 0

\* a journal holds both kinds of Invoke entry as the enricher produced them:
\* at index 1 one that is not completed and names its child, at index 2 one
\* that the service endpoint completed and that names none
C40_witness ==
    \E i \in Invocations :
        /\ IsActive(i) /\ status[i].len = 3
        /\ journal[i][1].type = "Invoke" /\ ~journal[i][1].completed
        /\ journal[i][1].enr = ChildOf(i, 1)
        /\ journal[i][2].type = "Invoke" /\ journal[i][2].completed
        /\ journal[i][2].enr = 0
        /\ journal[i][2] = enrich_entry(i, 2, Entry("Invoke", TRUE, ChildOf(i, 2), "", 0))
====
